---------------------------- MODULE Spec2Model ----------------------------
(* A model of the dshot dependency-injection container: Container, entry,  *)
(* Registration, Token and the auto-wiring helpers.                        *)
(*                                                                         *)
(* Callers are threads; each runs one exported operation at a time as a    *)
(* stack of frames, one frame per Go function activation.  A step of a     *)
(* thread executes the top frame up to its next call, return, lock         *)
(* acquisition or lock release.  A section of code that runs between       *)
(* c.mu.RLock() and c.mu.RUnlock(), or between c.mu.Lock() and its         *)
(* deferred Unlock, without calling out, is one step.                      *)
EXTENDS Integers, Sequences, FiniteSets, TLC

(***************************************************************************)
(* Bounds of the model.                                                    *)
(***************************************************************************)
MaxContainers == 2      \* containers ever constructed (default one included)
MaxEntries == 3         \* entries ever created by registration calls
MaxCalls == 2           \* factory invocations ever started
MaxFactories == 2       \* factories registered before concurrent callers start
MaxBatch == 2           \* registrations passed to one Register call
NumThreads == 2         \* concurrent callers

(***************************************************************************)
(* reflect.Type.  "D" and "S" are the struct types Database and Service of *)
(* the tests, "PD" and "PS" are *Database and *Service, "I" is an          *)
(* interface type implemented by *Database (pointer receiver).  NilType is *)
(* the nil reflect.Type that reflect.TypeOf yields for the zero value of   *)
(* an interface type.  Types are the types that are registered and         *)
(* resolved; "W" is a struct type that is only a target of Inject, "PW"    *)
(* is *W and "PPD" is **Database.  "int" is the primitive type int, which  *)
(* can be registered but not auto-wired, and "Pint" is *int.               *)
(***************************************************************************)
NilType == "nil"
Types == {"D", "PD", "S", "PS", "I"}
PrimitiveTypes == {"int"}

Kind(T) == CASE T \in {"D", "S", "W"} -> "struct"
             [] T \in {"PD", "PS", "PW", "PPD", "Pint"} -> "ptr"
             [] T = "I" -> "interface"
             [] T = "int" -> "int"
             [] OTHER -> "invalid"

Elem(T) == CASE T = "PD" -> "D"
             [] T = "PS" -> "S"
             [] T = "PW" -> "W"
             [] T = "PPD" -> "PD"
             [] T = "Pint" -> "int"
             [] OTHER -> NilType

(***************************************************************************)
(* The fields of the struct types, in the order of their declaration:      *)
(*   type Database struct{}                                                *)
(*   type Service struct{ DB *Database }                                   *)
(*   type W struct{ Any I; priv *Database; Svc Service; DB *Database }     *)
(* A field with a lower-case name is not exported, and reflect cannot set  *)
(* it.                                                                     *)
(***************************************************************************)
Field(name, typ, exported) == [name |-> name, typ |-> typ, exported |-> exported]

Fields(T) ==
    CASE T = "S" -> <<Field("DB", "PD", TRUE)>>
      [] T = "W" -> <<Field("Any", "I", TRUE), Field("priv", "PD", FALSE),
                      Field("Svc", "S", TRUE), Field("DB", "PD", TRUE)>>
      [] OTHER -> <<>>

\* reflect.Type.Implements: the method set of valType includes targetType's.
Implements(valType, targetType) ==
    /\ Kind(targetType) = "interface"
    /\ valType \in {"PD", "I"}

\* reflect.Type.AssignableTo for the named types of the model: identical
\* types, or an interface target that the value's type implements.
AssignableTo(valType, targetType) ==
    \/ valType = targetType
    \/ Implements(valType, targetType)

\* Lifecycle
Singleton == 0
Prototype == 1

(***************************************************************************)
(* Values.  A value carries its dynamic type and the identity of the       *)
(* object it denotes.  obj = <<e, 0>> is the value handed to the Provide   *)
(* call that created entry e; <<e, -n>> is the value that the Bind for     *)
(* token <<"tok", n>> carried into the Register call that created entry e; *)
(* <<e, k>> with k > 0 is the product of the k-th call of entry e's        *)
(* factory; <<0, 0>> is a nil pointer.  conv records a pointer/value       *)
(* coercion applied by resolveAndConvert.                                  *)
(***************************************************************************)
NilObj == <<0, 0>>
NilValue == [typ |-> NilType, obj |-> NilObj, conv |-> "none"]
MkValue(T, obj) == [typ |-> T, obj |-> obj, conv |-> "none"]

(***************************************************************************)
(* Tokens.  A token is a pointer; the registry map is keyed by the pointer.*)
(* <<"tok", n>> is the n-th *Token[T] made by the callers with NewToken;   *)
(* <<"prov", e>> is the *tokenKey allocated by the Provide call that       *)
(* created entry e, which nothing else ever holds.                         *)
(***************************************************************************)
UserTokens == {<<"tok", 1>>, <<"tok", 2>>, <<"tok", 3>>, <<"tok", 4>>}

\* The type parameter T of *Token[T].
TokenType(tok) == CASE tok = <<"tok", 1>> -> "PD"
                    [] tok = <<"tok", 2>> -> "PD"
                    [] tok = <<"tok", 3>> -> "I"
                    [] tok = <<"tok", 4>> -> "PS"
                    [] OTHER -> NilType

\* The key string of a token made by NewToken[T]() without a name: the name
\* of T, or of the type T points to.  Tokens 1 and 2 have equal keys.
TokenKey(tok) == CASE tok = <<"tok", 1>> -> "Database"
                   [] tok = <<"tok", 2>> -> "Database"
                   [] tok = <<"tok", 3>> -> "I"
                   [] tok = <<"tok", 4>> -> "Service"
                   [] OTHER -> ""

NoFactory == [kind |-> "none", out |-> NilType, c |-> 0, params |-> <<>>]

VARIABLES
    parent,         \* parent[c]: Container.parent of container c, 0 for nil
    registry,       \* registry[c]: Container.registry, a set of <<token, entry>>
    typeRegistry,   \* typeRegistry[c][T]: Container.typeRegistry, entries in order
    entries,        \* entries[e]: the fields of entry e
    callCount,      \* callCount[e]: calls of entries[e].factory so far
    stack,          \* stack[t]: the frames of thread t, innermost first
    ret,            \* ret[t]: what the last returned frame of t returned
    done,           \* done[t]: the finished operation of t and its outcome
    cleared,        \* history: containers cleared and not registered into since
    returned,       \* history: returned[e], the objects entry e's resolve returned
    resolutions     \* history: resolutions[e], finished resolve calls of a
                    \*          Prototype entry e

vars == <<parent, registry, typeRegistry, entries, callCount, stack, ret, done,
          cleared, returned, resolutions>>

\* The history of the resolve calls.
history == <<returned, resolutions>>

Containers == 1 .. Len(parent)
EntryIds == 1 .. Len(entries)


Threads == DOMAIN stack

NoToken == <<"tok", 0>>

NoOp == [op |-> "none", c |-> 0, typ |-> NilType, tok |-> NoToken,
         out |-> "none", val |-> NilValue, e |-> 0, vals |-> <<>>, calls |-> 0]

Idle(t) == stack[t] = <<>>

(***************************************************************************)
(* Container.mu of container c.  A caller holds the write lock from the    *)
(* Lock of Register to its deferred Unlock, and the read lock while it is  *)
(* in a loop of ResolveAll or collectEntriesDirectly; every other section  *)
(* under the lock is one step.                                             *)
(***************************************************************************)
\* A lock that no writer is ever seen to hold.
NeverLocked(c) == FALSE

WLocked(c) ==
    \E t \in DOMAIN stack : \E i \in 1 .. Len(stack[t]) :
        stack[t][i].fn = "Register" /\ stack[t][i].c = c

RLocked(c) ==
    \E t \in DOMAIN stack : \E i \in 1 .. Len(stack[t]) :
        /\ stack[t][i].fn \in {"ResolveAll", "collectEntriesDirectly"}
        /\ stack[t][i].pc \in {"loop", "append"}
        /\ stack[t][i].c = c

\* c.mu.Lock() and c.mu.RLock() return.
CanLock(c) == ~WLocked(c) /\ ~RLocked(c)
CanRLock(c) == ~WLocked(c)

\* The entries created so far leave room for n more.
CanCreate(n) == Len(entries) + n <= MaxEntries

EmptyTypeRegistry == [T \in Types \cup PrimitiveTypes |-> <<>>]

(***************************************************************************)
(* entry: the struct literal of a registration call.  once is the done     *)
(* flag of sync.Once, onceM the thread holding the mutex of sync.Once (0   *)
(* when free), mu the thread holding entry.mu.                             *)
(***************************************************************************)
NewEntry(value, factory, depType, lifecycle) ==
    [value |-> value, factory |-> factory, depType |-> depType,
     lifecycle |-> lifecycle, once |-> FALSE, onceM |-> 0, mu |-> 0]

\* A store into a map keyed by the key string of the token.
MapStoreByKey(reg, token, e) ==
    {p \in reg : TokenKey(p[1]) # TokenKey(token)} \cup {<<token, e>>}

\* c.registry[token] = e
MapStore(reg, token, e) ==
    {p \in reg : p[1] # token} \cup {<<token, e>>}

\* A type index in which the last entry of a type replaces the others.
TypeStore(treg, typ, e) == [treg EXCEPT ![typ] = <<e>>]

\* c.typeRegistry[typ] = append(c.typeRegistry[typ], e)
TypeAppend(treg, typ, e) == [treg EXCEPT ![typ] = Append(@, e)]

\* The entries ents replace the entries; the new ones have no history yet.
Created(t, ents) ==
    LET n == Len(ents) - Len(entries)
    IN  /\ entries' = ents
        /\ callCount' = callCount \o [i \in 1 .. n |-> 0]
        /\ returned' = returned \o [i \in 1 .. n |-> {}]
        /\ resolutions' = resolutions \o [i \in 1 .. n |-> 0]
        /\ done' = [done EXCEPT ![t] = NoOp]
        /\ UNCHANGED <<parent, stack, ret>>

(***************************************************************************)
(* New / NewScoped.  The default container exists from package             *)
(* initialisation; NewScoped(nil) panics and constructs nothing.           *)
(***************************************************************************)
NewScoped(t, p) ==
    /\ Idle(t)
    /\ IF p = 0
       THEN /\ done' = [done EXCEPT ![t] =
                          [NoOp EXCEPT !.op = "NewScoped", !.out = "panic:nil-parent"]]
            /\ UNCHANGED <<parent, registry, typeRegistry>>
       ELSE /\ Len(parent) < MaxContainers
            /\ p \in Containers
            /\ parent' = Append(parent, p)
            /\ registry' = Append(registry, {})
            /\ typeRegistry' = Append(typeRegistry, EmptyTypeRegistry)
            /\ done' = [done EXCEPT ![t] = NoOp]
    /\ UNCHANGED <<entries, callCount, stack, ret, cleared, history>>

\* New(), called by a caller after package initialisation.
NewRoot(t) ==
    /\ Idle(t)
    /\ Len(parent) < MaxContainers
    /\ parent' = Append(parent, 0)
    /\ registry' = Append(registry, {})
    /\ typeRegistry' = Append(typeRegistry, EmptyTypeRegistry)
    /\ done' = [done EXCEPT ![t] = NoOp]
    /\ UNCHANGED <<entries, callCount, stack, ret, cleared, history>>

\* The *Container that denotes container c; the nil pointer for c = 0.
ContainerPointer(c) == MkValue("PC", <<c, 0>>)

\* Container.Parent()
Parent(t, c) ==
    /\ Idle(t)
    /\ c \in Containers
    /\ done' = [done EXCEPT ![t] =
                   [NoOp EXCEPT !.op = "Parent", !.c = c, !.out = "ok",
                                !.val = ContainerPointer(parent[c])]]
    /\ UNCHANGED <<parent, registry, typeRegistry, entries, callCount, stack, ret,
                   cleared, history>>

\* A Provide that writes into the maps of the parent of a scoped container.
ProvideUp(t, c, typ, isNil) ==
    LET e == Len(entries) + 1
        up == IF parent[c] # 0 THEN parent[c] ELSE c
        value == MkValue(typ, IF isNil THEN NilObj ELSE <<e, 0>>)
    IN  /\ Idle(t)
        /\ CanCreate(1)
        /\ Created(t, Append(entries, NewEntry(value, NoFactory, typ, Singleton)))
        /\ registry' = [registry EXCEPT ![up] = MapStore(@, <<"prov", e>>, e)]
        /\ typeRegistry' = [typeRegistry EXCEPT ![up] = TypeAppend(@, typ, e)]
        /\ cleared' = cleared \ {c}

\* The call op on container c panics with reason before it locks c.mu.
Rejected(t, op, c, reason) ==
    /\ done' = [done EXCEPT ![t] = [NoOp EXCEPT !.op = op, !.c = c, !.out = reason]]
    /\ UNCHANGED <<parent, registry, typeRegistry, entries, callCount, stack, ret,
                   cleared, history>>

\* A Provide that registers whatever it is given, the nil value too.
ProvideUnchecked(t, c, typ, isNil) ==
    LET e == Len(entries) + 1
        value == MkValue(typ, IF isNil THEN NilObj ELSE <<e, 0>>)
    IN  /\ Idle(t)
        /\ CanCreate(1)
        /\ Created(t, Append(entries, NewEntry(value, NoFactory, typ, Singleton)))
        /\ registry' = [registry EXCEPT ![c] = MapStore(@, <<"prov", e>>, e)]
        /\ typeRegistry' = IF typ \in Types
                           THEN [typeRegistry EXCEPT ![c] = TypeAppend(@, typ, e)]
                           ELSE typeRegistry
        /\ cleared' = cleared \ {c}

(***************************************************************************)
(* Container.Provide(value) for a value whose dynamic type is typ; isNil   *)
(* says that the value is a nil pointer of that type.  The nil interface   *)
(* value has the nil type and is refused.                                  *)
(***************************************************************************)
Provide(t, c, typ, isNil) ==
    LET e == Len(entries) + 1
        value == MkValue(typ, IF isNil THEN NilObj ELSE <<e, 0>>)
    IN  /\ Idle(t)
        /\ IF typ = NilType
           THEN Rejected(t, "Provide", c, "panic:invalid-registration")
           ELSE /\ CanCreate(1)
                /\ CanLock(c)
                /\ isNil => Kind(typ) = "ptr"
                /\ Created(t, Append(entries, NewEntry(value, NoFactory, typ, Singleton)))
                /\ registry' = [registry EXCEPT ![c] = MapStore(@, <<"prov", e>>, e)]
                /\ typeRegistry' = [typeRegistry EXCEPT ![c] = TypeAppend(@, typ, e)]
                /\ cleared' = cleared \ {c}

(***************************************************************************)
(* Container.ProvideFactory / ProvidePrototype through                     *)
(* provideFactoryWithLifecycle.  The argument fn is what the caller passes *)
(* as the factory: a function of no parameters with the result types       *)
(* fn.outs, a value that is no function, or nil (reflect.ValueOf(nil) is   *)
(* the zero Value, whose Type() panics).                                   *)
(***************************************************************************)
FuncOf(outs) == [kind |-> "func", outs |-> outs]
NotAFunc == [kind |-> "value", outs |-> <<>>]
NilFunc == [kind |-> "nil", outs |-> <<>>]

provideFactoryWithLifecycle(t, c, fn, lifecycle) ==
    LET e == Len(entries) + 1
        returnType == fn.outs[1]
        factory == [kind |-> "plain", out |-> returnType, c |-> 0, params |-> <<>>]
    IN  /\ Idle(t)
        /\ IF fn.kind = "nil"
           THEN Rejected(t, "ProvideFactory", c, "panic:reflect")
           ELSE IF fn.kind # "func" \/ Len(fn.outs) # 1
           THEN Rejected(t, "ProvideFactory", c, "panic:invalid-registration")
           ELSE /\ CanCreate(1)
                /\ CanLock(c)
                /\ Created(t, Append(entries,
                                     NewEntry(NilValue, factory, returnType, lifecycle)))
                /\ registry' = [registry EXCEPT ![c] = MapStore(@, <<"prov", e>>, e)]
                /\ typeRegistry' = [typeRegistry EXCEPT ![c] =
                                        TypeAppend(@, returnType, e)]
                /\ cleared' = cleared \ {c}

(***************************************************************************)
(* Registration[T].registerTo applied to the maps of one container.        *)
(* st = [reg, treg, ents]; r = [token, isNil, factory, lifecycle].         *)
(* reflect.TypeOf(zero) is nil when T is an interface type: the entry then *)
(* keeps a nil depType and is stored in the registry map only.             *)
(***************************************************************************)
ZeroTypeOf(T) == IF Kind(T) = "interface" THEN NilType ELSE T

\* The dynamic type of the value a Bind for Token[T] carries.
BoundValueType(T) == IF Kind(T) = "interface" THEN "PD" ELSE T

\* The value of registration r, as stored by the call that creates entry e.
BoundValue(r, e) ==
    LET T == TokenType(r.token)
    IN  IF r.factory.kind # "none" THEN NilValue
        ELSE IF r.isNil
        THEN IF Kind(T) = "interface" THEN NilValue ELSE MkValue(T, NilObj)
        ELSE MkValue(BoundValueType(T), <<e, 0 - r.token[2]>>)

registerTo(st, r) ==
    LET e == Len(st.ents) + 1
        typ == ZeroTypeOf(TokenType(r.token))
        ent == NewEntry(BoundValue(r, e), r.factory, typ, r.lifecycle)
    IN  [reg  |-> MapStore(st.reg, r.token, e),
         treg |-> IF typ # NilType THEN TypeAppend(st.treg, typ, e) ELSE st.treg,
         ents |-> Append(st.ents, ent)]

RECURSIVE registerAll(_, _)
registerAll(st, regs) ==
    IF regs = <<>> THEN st
    ELSE registerAll(registerTo(st, Head(regs)), Tail(regs))

\* Bind(token, value): a value registration; lifecycle keeps its zero value.
Bind(token, isNil) ==
    [token |-> token, isNil |-> isNil, factory |-> NoFactory, lifecycle |-> Singleton]

(***************************************************************************)
(* BindAutoFactory / BindAutoPrototype through buildAutoFactory: the       *)
(* factory of the registration resolves the parameters params of the       *)
(* user's function from container, the one named in the Bind call.         *)
(***************************************************************************)
buildAutoFactory(token, params, lifecycle, container) ==
    [token |-> token, isNil |-> FALSE,
     factory |-> [kind |-> "auto", out |-> TokenType(token), c |-> container,
                  params |-> params],
     lifecycle |-> lifecycle]

\* Container.Register(registrations...)
Register(t, c, regs) ==
    LET st == registerAll([reg |-> registry[c], treg |-> typeRegistry[c],
                           ents |-> entries], regs)
    IN  /\ Idle(t)
        /\ regs # <<>>
        /\ CanCreate(Len(regs))
        /\ CanLock(c)
        /\ Created(t, st.ents)
        /\ registry' = [registry EXCEPT ![c] = st.reg]
        /\ typeRegistry' = [typeRegistry EXCEPT ![c] = st.treg]
        /\ cleared' = cleared \ {c}

\* A Clear that also forgets the parent of the container.
ClearDetach(t, c) ==
    /\ Idle(t)
    /\ parent' = [parent EXCEPT ![c] = 0]
    /\ registry' = [registry EXCEPT ![c] = {}]
    /\ typeRegistry' = [typeRegistry EXCEPT ![c] = EmptyTypeRegistry]
    /\ cleared' = cleared \cup {c}
    /\ done' = [done EXCEPT ![t] = NoOp]
    /\ UNCHANGED <<entries, callCount, stack, ret, history>>

\* Container.Clear()
Clear(t, c) ==
    /\ Idle(t)
    /\ CanLock(c)
    /\ registry' = [registry EXCEPT ![c] = {}]
    /\ typeRegistry' = [typeRegistry EXCEPT ![c] = EmptyTypeRegistry]
    /\ cleared' = cleared \cup {c}
    /\ done' = [done EXCEPT ![t] = NoOp]
    /\ UNCHANGED <<parent, entries, callCount, stack, ret, history>>

(***************************************************************************)
(* Frames.  fn names the Go function, pc the place in it, c the receiver,  *)
(* cur the container a chain walk has reached, typ the target type, tok    *)
(* the token, e the entry at hand, sim the similarMatch local of           *)
(* findSingleEntry, k the serial of a factory call, args the types of the  *)
(* arguments resolveAndCall has resolved so far.  ResolveAll and           *)
(* collectEntriesDirectly keep the entries in seen, the values in results, *)
(* the entries their loop has still to visit in todo, similarEntries in    *)
(* sims and hasExactMatch in hit.  Invoke keeps the types of the           *)
(* parameters of its callable in params, the arguments it has resolved in  *)
(* results and the number of calls it has made of the callable in calls;   *)
(* want is the type parameter T of Call[T].                                *)
(***************************************************************************)
Frame(fn, pc, c, typ, tok, e) ==
    [fn |-> fn, pc |-> pc, c |-> c, cur |-> c, typ |-> typ, tok |-> tok,
     e |-> e, sim |-> 0, k |-> 0, args |-> <<>>,
     seen |-> {}, results |-> <<>>, todo |-> <<>>, sims |-> <<>>, hit |-> FALSE,
     params |-> <<>>, calls |-> 0, want |-> NilType]

Top(t) == Head(stack[t])
Rest(t) == Tail(stack[t])
Bottom(t) == stack[t][Len(stack[t])]

NoRet == [out |-> "none", val |-> NilValue, e |-> 0]
\* A return that loses the value on its way.
RetZero(val, e) == [out |-> "ok", val |-> NilValue, e |-> e]

RetValue(val, e) == [out |-> "ok", val |-> val, e |-> e]
RetNotFound == [out |-> "notfound", val |-> NilValue, e |-> 0]

\* What the caller of the finished operation of frame f observes.
Outcome(f, r) ==
    [op |-> f.fn, c |-> f.c, typ |-> f.typ, tok |-> f.tok,
     out |-> r.out, val |-> r.val, e |-> r.e, vals |-> f.results,
     calls |-> f.calls]

\* The top frame moves on to frame f.
Goto(t, f) == [stack EXCEPT ![t] = <<f>> \o Rest(t)]

\* The top frame becomes f and calls callee.
Call(t, f, callee) == [stack EXCEPT ![t] = <<callee, f>> \o Rest(t)]

\* The top frame returns r to its caller, or to the caller of the operation.
Return(t, r) ==
    /\ stack' = [stack EXCEPT ![t] = Rest(t)]
    /\ IF Len(stack[t]) = 1
       THEN /\ done' = [done EXCEPT ![t] = Outcome(Top(t), r)]
            /\ ret' = [ret EXCEPT ![t] = NoRet]
       ELSE /\ done' = done
            /\ ret' = [ret EXCEPT ![t] = r]

(***************************************************************************)
(* A panic unwinds every frame of the thread (nothing in the package       *)
(* recovers) and runs the deferred calls on its way: a frame of            *)
(* entry.resolve that is inside once.Do has deferred e.mu.Unlock(), and    *)
(* sync.Once has deferred the store of its done flag and the unlock of     *)
(* its mutex.                                                              *)
(***************************************************************************)
InOnce(t, e) ==
    \E i \in 1 .. Len(stack[t]) :
        /\ stack[t][i].fn = "resolve"
        /\ stack[t][i].pc = "inOnce"
        /\ stack[t][i].e = e

Unwound(t) ==
    [e \in EntryIds |->
        IF InOnce(t, e)
        THEN [entries[e] EXCEPT !.once = TRUE, !.onceM = 0, !.mu = 0]
        ELSE entries[e]]

Panic(t, reason) ==
    /\ stack' = [stack EXCEPT ![t] = <<>>]
    /\ ret' = [ret EXCEPT ![t] = NoRet]
    /\ done' = [done EXCEPT ![t] =
                   [Outcome(Bottom(t), NoRet) EXCEPT !.out = reason]]
    /\ entries' = Unwound(t)

\* An exported operation starts on an idle thread.
Start(t, f) ==
    /\ Idle(t)
    /\ stack' = [stack EXCEPT ![t] = <<f>>]
    /\ done' = [done EXCEPT ![t] = NoOp]
    /\ UNCHANGED <<parent, registry, typeRegistry, entries, callCount, ret, cleared,
                   history>>

(***************************************************************************)
(* Container.Register step by step, as the callers of other threads meet   *)
(* it: c.mu.Lock(), one registerTo after the other, and the deferred       *)
(* c.mu.Unlock().  k counts the registrations applied so far.              *)
(***************************************************************************)
RegisterLock(t, c, regs) ==
    /\ c \in Containers
    /\ regs # <<>>
    /\ CanCreate(Len(regs))
    /\ CanLock(c)
    /\ Start(t, [Frame("Register", "loop", c, NilType, NoToken, 0) EXCEPT !.todo = regs])

\* reg.registerTo(c)
RegisterTo(t) ==
    LET f == Top(t)
        st == registerTo([reg |-> registry[f.c], treg |-> typeRegistry[f.c],
                          ents |-> entries], Head(f.todo))
    IN  /\ ~Idle(t)
        /\ f.fn = "Register"
        /\ f.todo # <<>>
        /\ entries' = st.ents
        /\ callCount' = Append(callCount, 0)
        /\ returned' = Append(returned, {})
        /\ resolutions' = Append(resolutions, 0)
        /\ registry' = [registry EXCEPT ![f.c] = st.reg]
        /\ typeRegistry' = [typeRegistry EXCEPT ![f.c] = st.treg]
        /\ cleared' = cleared \ {f.c}
        /\ stack' = Goto(t, [f EXCEPT !.todo = Tail(@), !.k = @ + 1])
        /\ UNCHANGED <<parent, ret, done>>

\* The loop is over: the deferred c.mu.Unlock().
RegisterUnlock(t) ==
    LET f == Top(t)
    IN  /\ ~Idle(t)
        /\ f.fn = "Register"
        /\ f.todo = <<>>
        /\ Return(t, [out |-> "ok", val |-> NilValue, e |-> 0])
        /\ UNCHANGED <<parent, registry, typeRegistry, entries, callCount, cleared,
                       history>>

(***************************************************************************)
(* Type Matcher                                                            *)
(***************************************************************************)
\* Container.isExactMatch, for a non-nil valType.
isExactMatch(targetType, valType) ==
    IF Kind(targetType) = "interface"
    THEN Implements(valType, targetType)
    ELSE AssignableTo(valType, targetType)

\* Container.isSimilarType
isSimilarType(targetType, valType) ==
    IF targetType = valType THEN FALSE
    ELSE IF Kind(targetType) = "ptr" /\ Kind(valType) # "ptr"
         THEN Elem(targetType) = valType
    ELSE IF Kind(targetType) # "ptr" /\ Kind(valType) = "ptr"
         THEN Elem(valType) = targetType
    ELSE FALSE

(***************************************************************************)
(* Container.resolveAndConvert with needsConversion = true, after          *)
(* e.resolve() returned resolved.  reflect.ValueOf of an interface value   *)
(* is never addressable, so a bare value is copied into a new slot.        *)
(***************************************************************************)
\* A conversion that hands out the zero value for a nil pointer.
resolveAndConvertNil(targetType, resolved, e) ==
    IF Kind(targetType) # "ptr" /\ Kind(resolved.typ) = "ptr"
    THEN RetValue([typ |-> targetType, obj |-> resolved.obj, conv |-> "deref"], e)
    ELSE RetValue(resolved, e)

resolveAndConvert(targetType, resolved, e) ==
    IF resolved.typ = NilType THEN [out |-> "panic:reflect", val |-> NilValue, e |-> 0]
    ELSE IF resolved.typ = targetType THEN RetValue(resolved, e)
    ELSE IF Kind(targetType) = "ptr" /\ Kind(resolved.typ) # "ptr"
         THEN IF Elem(targetType) # resolved.typ THEN RetNotFound
              ELSE RetValue([typ |-> targetType, obj |-> resolved.obj, conv |-> "addr"], e)
    ELSE IF Kind(targetType) # "ptr" /\ Kind(resolved.typ) = "ptr"
         THEN IF Elem(resolved.typ) # targetType THEN RetNotFound
              ELSE IF resolved.obj # NilObj
                   THEN RetValue([typ |-> targetType, obj |-> resolved.obj, conv |-> "deref"], e)
                   ELSE RetNotFound
    ELSE RetValue(resolved, e)

(***************************************************************************)
(* The loop of findSingleEntry over c.registry.  Go iterates a map in an   *)
(* unspecified order: order is one such order.  A nil depType makes the    *)
(* method call in isExactMatch dereference a nil interface.                *)
(***************************************************************************)
RECURSIVE Orders(_)
Orders(S) ==
    IF S = {} THEN {<<>>}
    ELSE UNION {{<<x>> \o o : o \in Orders(S \ {x})} : x \in S}

RECURSIVE scanLoop(_, _, _, _)
scanLoop(order, targetType, exactMatch, similarMatch) ==
    IF order = <<>>
    THEN [out |-> "ok", exact |-> exactMatch, similar |-> similarMatch]
    ELSE LET e == Head(order)[2]
             valType == entries[e].depType
         IN  IF valType = NilType
             THEN [out |-> "panic:nil-type", exact |-> 0, similar |-> 0]
             ELSE IF isExactMatch(targetType, valType)
             THEN IF exactMatch # 0
                  THEN [out |-> "panic:ambiguous", exact |-> 0, similar |-> 0]
                  ELSE scanLoop(Tail(order), targetType, e, similarMatch)
             ELSE IF similarMatch = 0 /\ isSimilarType(targetType, valType)
             THEN scanLoop(Tail(order), targetType, exactMatch, e)
             ELSE scanLoop(Tail(order), targetType, exactMatch, similarMatch)

\* Every result the loop can have for the registry of container c.
ScanResults(c, targetType) ==
    {scanLoop(o, targetType, 0, 0) : o \in Orders(registry[c])}

(***************************************************************************)
(* Container.Get(token) for a non-nil token, with getEntry's walk up the   *)
(* parent chain: each container's map is read under its own read lock.     *)
(***************************************************************************)
\* A Get that starts its search in the parent of the container.
CallGetFromParent(t, c, token) ==
    /\ c \in Containers
    /\ Start(t, [Frame("Get", "getEntry", c, NilType, token, 0)
                    EXCEPT !.cur = IF parent[c] # 0 THEN parent[c] ELSE c])

CallGet(t, c, token) ==
    /\ c \in Containers
    /\ Start(t, Frame("Get", "getEntry", c, NilType, token, 0))

\* A map keyed by the type of the token instead of the token.
MapLoadByType(reg, token) ==
    IF \E p \in reg : TokenType(p[1]) = TokenType(token)
    THEN (CHOOSE p \in reg : TokenType(p[1]) = TokenType(token))[2]
    ELSE 0

\* c.registry[token]: the entry, or 0 when the key is absent.
MapLoad(reg, token) ==
    IF \E p \in reg : p[1] = token
    THEN (CHOOSE p \in reg : p[1] = token)[2]
    ELSE 0

getEntry(t) ==
    LET f == Top(t)
        e == MapLoad(registry[f.cur], f.tok)
    IN  /\ ~Idle(t)
        /\ f.fn \in {"Get", "Find"}
        /\ f.pc = "getEntry"
        /\ CanRLock(f.cur)
        /\ IF e # 0
           THEN /\ stack' = Call(t, [f EXCEPT !.pc = "resolved", !.e = e],
                                 Frame("resolve", "start", f.cur, NilType, NoToken, e))
                /\ UNCHANGED <<entries, ret, done>>
           ELSE IF parent[f.cur] # 0
           THEN /\ stack' = Goto(t, [f EXCEPT !.cur = parent[f.cur]])
                /\ UNCHANGED <<entries, ret, done>>
           ELSE IF f.fn = "Get"
           THEN Panic(t, "panic:not-found")
           ELSE /\ Return(t, RetNotFound)
                /\ UNCHANGED entries
        /\ UNCHANGED <<parent, registry, typeRegistry, callCount, cleared, history>>

\* return e.resolve()
GetReturn(t) ==
    LET f == Top(t)
    IN  /\ ~Idle(t)
        /\ f.fn = "Get"
        /\ f.pc = "resolved"
        /\ Return(t, ret[t])
        /\ UNCHANGED <<parent, registry, typeRegistry, entries, callCount, cleared, history>>

(***************************************************************************)
(* Find[T](token, c): the walk of getEntry, with a miss reported as false, *)
(* and the type assertion e.resolve().(T) on what the entry yields.  The   *)
(* assertion panics on a nil interface value whatever T is.                *)
(***************************************************************************)
CallFind(t, c, token) ==
    /\ c \in Containers
    /\ Start(t, Frame("Find", "getEntry", c, NilType, token, 0))

\* x.(T) succeeds.
TypeAssert(val, T) == val.typ # NilType /\ AssignableTo(val.typ, T)

\* return e.resolve().(T), true
FindReturn(t) ==
    LET f == Top(t)
    IN  /\ ~Idle(t)
        /\ f.fn = "Find"
        /\ f.pc = "resolved"
        /\ IF TypeAssert(ret[t].val, TokenType(f.tok))
           THEN /\ Return(t, ret[t])
                /\ UNCHANGED entries
           ELSE Panic(t, "panic:assert")
        /\ UNCHANGED <<parent, registry, typeRegistry, callCount, cleared, history>>

(***************************************************************************)
(* Container.Resolve(targetType): the look in the type index, then         *)
(* findSingleEntry.                                                        *)
(***************************************************************************)
\* A look in the type index of the parent instead of the container's own.
TypeLoadParent(c, targetType) ==
    typeRegistry[IF parent[c] # 0 THEN parent[c] ELSE c][targetType]

\* A look in the type index that sees no more than the first entry.
TypeLoadFirst(c, targetType) ==
    IF Len(typeRegistry[c][targetType]) > 1
    THEN <<typeRegistry[c][targetType][1]>>
    ELSE typeRegistry[c][targetType]

\* entries, found := c.typeRegistry[targetType]
TypeLoad(c, targetType) == typeRegistry[c][targetType]

CallResolve(t, c, targetType) ==
    /\ c \in Containers
    /\ Start(t, Frame("Resolve", "typeRegistry", c, targetType, NoToken, 0))

Resolve(t) ==
    LET f == Top(t)
        found == TypeLoad(f.c, f.typ)
    IN  /\ ~Idle(t)
        /\ f.fn = "Resolve"
        /\ f.pc = "typeRegistry"
        /\ CanRLock(f.c)
        /\ IF Len(found) > 1
           THEN Panic(t, "panic:ambiguous")
           ELSE /\ stack' =
                     IF Len(found) = 1
                     THEN Call(t, [f EXCEPT !.pc = "return"],
                               Frame("resolve", "start", f.c, NilType, NoToken, found[1]))
                     ELSE Call(t, [f EXCEPT !.pc = "return"],
                               Frame("findSingleEntry", "scan", f.c, f.typ, NoToken, 0))
                /\ UNCHANGED <<entries, ret, done>>
        /\ UNCHANGED <<parent, registry, typeRegistry, callCount, cleared, history>>

\* return entries[0].resolve(), true  /  return c.findSingleEntry(targetType)
ResolveReturn(t) ==
    LET f == Top(t)
    IN  /\ ~Idle(t)
        /\ f.fn = "Resolve"
        /\ f.pc = "return"
        /\ Return(t, ret[t])
        /\ UNCHANGED <<parent, registry, typeRegistry, entries, callCount, cleared, history>>

(***************************************************************************)
(* Container.findSingleEntry(targetType)                                   *)
(***************************************************************************)
\* What follows the search of the parent chain: the local similar match.
AfterParent(t, f) ==
    IF f.sim # 0
    THEN /\ stack' = Call(t, [f EXCEPT !.pc = "convert"],
                          Frame("resolve", "start", f.c, NilType, NoToken, f.sim))
         /\ ret' = [ret EXCEPT ![t] = NoRet]
         /\ UNCHANGED <<entries, done>>
    ELSE /\ Return(t, RetNotFound)
         /\ UNCHANGED entries

findSingleEntry(t) ==
    LET f == Top(t)
    IN  /\ ~Idle(t)
        /\ f.fn = "findSingleEntry"
        /\ f.pc = "scan"
        /\ CanRLock(f.c)
        /\ \E r \in ScanResults(f.c, f.typ) :
              IF r.out # "ok"
              THEN Panic(t, r.out)
              ELSE IF r.exact # 0
              THEN /\ stack' = Call(t, [f EXCEPT !.pc = "exact"],
                                    Frame("resolve", "start", f.c, NilType, NoToken, r.exact))
                   /\ UNCHANGED <<entries, ret, done>>
              ELSE IF parent[f.c] # 0
              THEN /\ stack' = Call(t, [f EXCEPT !.pc = "parent", !.sim = r.similar],
                                    Frame("findSingleEntry", "scan", parent[f.c],
                                          f.typ, NoToken, 0))
                   /\ UNCHANGED <<entries, ret, done>>
              ELSE AfterParent(t, [f EXCEPT !.sim = r.similar])
        /\ UNCHANGED <<parent, registry, typeRegistry, callCount, cleared, history>>

\* return exactMatch.resolve(), true
findSingleEntryExact(t) ==
    LET f == Top(t)
    IN  /\ ~Idle(t)
        /\ f.fn = "findSingleEntry"
        /\ f.pc = "exact"
        /\ Return(t, ret[t])
        /\ UNCHANGED <<parent, registry, typeRegistry, entries, callCount, cleared, history>>

\* A search that prefers its own similar match to whatever the parent found.
findSingleEntryLocalFirst(t) ==
    LET f == Top(t)
    IN  /\ ~Idle(t)
        /\ f.fn = "findSingleEntry"
        /\ f.pc = "parent"
        /\ IF ret[t].out = "ok" /\ f.sim = 0
           THEN /\ Return(t, ret[t])
                /\ UNCHANGED entries
           ELSE AfterParent(t, f)
        /\ UNCHANGED <<parent, registry, typeRegistry, callCount, cleared, history>>

\* if val, ok := c.parent.findSingleEntry(targetType); ok { return val, true }
findSingleEntryParent(t) ==
    LET f == Top(t)
    IN  /\ ~Idle(t)
        /\ f.fn = "findSingleEntry"
        /\ f.pc = "parent"
        /\ IF ret[t].out = "ok"
           THEN /\ Return(t, ret[t])
                /\ UNCHANGED entries
           ELSE AfterParent(t, f)
        /\ UNCHANGED <<parent, registry, typeRegistry, callCount, cleared, history>>

\* return c.resolveAndConvert(targetType, similarMatch, true)
findSingleEntrySimilar(t) ==
    LET f == Top(t)
        r == resolveAndConvert(f.typ, ret[t].val, f.sim)
    IN  /\ ~Idle(t)
        /\ f.fn = "findSingleEntry"
        /\ f.pc = "convert"
        /\ IF r.out = "panic:reflect"
           THEN Panic(t, r.out)
           ELSE /\ Return(t, r)
                /\ UNCHANGED entries
        /\ UNCHANGED <<parent, registry, typeRegistry, callCount, cleared, history>>

(***************************************************************************)
(* Container.ResolveAll(targetType): the entries of the type index, then   *)
(* collectEntriesDirectly over the registry of the container and of every  *)
(* ancestor.  The map seen and the slice results are shared by all the     *)
(* calls; each loop runs, with its calls of e.resolve(), under the read    *)
(* lock of the container it reads.                                         *)
(***************************************************************************)
CallResolveAll(t, c, targetType) ==
    /\ c \in Containers
    /\ Start(t, Frame("ResolveAll", "capacity", c, targetType, NoToken, 0))

\* capacity := len(c.typeRegistry[targetType]), under the read lock
ResolveAllCapacity(t) ==
    LET f == Top(t)
    IN  /\ ~Idle(t)
        /\ f.fn = "ResolveAll"
        /\ f.pc = "capacity"
        /\ CanRLock(f.c)
        /\ stack' = Goto(t, [f EXCEPT !.pc = "index"])
        /\ UNCHANGED <<parent, registry, typeRegistry, entries, callCount, ret, done,
                       cleared, history>>

\* c.mu.RLock(); typeEntries, ok := c.typeRegistry[targetType]
ResolveAllIndex(t) ==
    LET f == Top(t)
    IN  /\ ~Idle(t)
        /\ f.fn = "ResolveAll"
        /\ f.pc = "index"
        /\ CanRLock(f.c)
        /\ stack' = Goto(t, [f EXCEPT !.pc = "loop", !.todo = TypeLoad(f.c, f.typ)])
        /\ UNCHANGED <<parent, registry, typeRegistry, entries, callCount, ret, done,
                       cleared, history>>

\* A map seen that never holds an entry.
NeverSeen(f, e) == FALSE

\* seen[e]
Seen(f, e) == e \in f.seen

\* The frame that collectEntriesDirectly on container c starts with, given
\* the seen and results of its caller f.
Collect(f, c) ==
    [Frame("collectEntriesDirectly", "scan", c, f.typ, NoToken, 0)
        EXCEPT !.seen = f.seen, !.results = f.results]

\* for _, e := range typeEntries; after it c.mu.RUnlock() and the call of
\* c.collectEntriesDirectly
ResolveAllLoop(t) ==
    LET f == Top(t)
        e == Head(f.todo)
    IN  /\ ~Idle(t)
        /\ f.fn = "ResolveAll"
        /\ f.pc = "loop"
        /\ stack' =
             IF f.todo = <<>>
             THEN Call(t, [f EXCEPT !.pc = "collected"], Collect(f, f.c))
             ELSE IF Seen(f, e)
             THEN Goto(t, [f EXCEPT !.todo = Tail(@)])
             ELSE Call(t, [f EXCEPT !.pc = "append", !.todo = Tail(@),
                                    !.seen = @ \cup {e}, !.e = e],
                       Frame("resolve", "start", f.c, NilType, NoToken, e))
        /\ UNCHANGED <<parent, registry, typeRegistry, entries, callCount, ret, done,
                       cleared, history>>

\* results = append(results, e.resolve()), in either loop
AppendResolved(t) ==
    LET f == Top(t)
    IN  /\ ~Idle(t)
        /\ f.fn \in {"ResolveAll", "collectEntriesDirectly"}
        /\ f.pc = "append"
        /\ stack' = Goto(t, [f EXCEPT !.pc = "loop",
                                      !.results = Append(@, ret[t].val)])
        /\ ret' = [ret EXCEPT ![t] = NoRet]
        /\ UNCHANGED <<parent, registry, typeRegistry, entries, callCount, done,
                       cleared, history>>

\* return results
ResolveAllReturn(t) ==
    LET f == Top(t)
    IN  /\ ~Idle(t)
        /\ f.fn = "ResolveAll"
        /\ f.pc = "collected"
        /\ Return(t, [out |-> "ok", val |-> NilValue, e |-> 0])
        /\ UNCHANGED <<parent, registry, typeRegistry, entries, callCount, cleared,
                       history>>

\* The entries of a sequence of pairs <<token, entry>>.
EntriesOf(order) == [i \in 1 .. Len(order) |-> order[i][2]]

\* c.mu.RLock(); for _, e := range c.registry, in one of the orders Go may
\* choose
collectScan(t) ==
    LET f == Top(t)
    IN  /\ ~Idle(t)
        /\ f.fn = "collectEntriesDirectly"
        /\ f.pc = "scan"
        /\ CanRLock(f.c)
        /\ \E order \in Orders(registry[f.c]) :
              stack' = Goto(t, [f EXCEPT !.pc = "loop", !.todo = EntriesOf(order)])
        /\ UNCHANGED <<parent, registry, typeRegistry, entries, callCount, ret, done,
                       cleared, history>>

\* What follows the search of the parent chain: the similar entries, when
\* the loop found no exact match.
CollectSimilar(f) ==
    [f EXCEPT !.pc = "similar", !.todo = IF f.hit THEN <<>> ELSE f.sims]

\* The body of the loop; after it c.mu.RUnlock() and the call of
\* c.parent.collectEntriesDirectly.
collectLoop(t) ==
    LET f == Top(t)
        e == Head(f.todo)
        valType == entries[e].depType
    IN  /\ ~Idle(t)
        /\ f.fn = "collectEntriesDirectly"
        /\ f.pc = "loop"
        /\ IF f.todo = <<>>
           THEN /\ stack' = IF parent[f.c] # 0
                            THEN Call(t, [f EXCEPT !.pc = "parent"],
                                      Collect(f, parent[f.c]))
                            ELSE Goto(t, CollectSimilar(f))
                /\ UNCHANGED <<entries, ret, done>>
           ELSE IF Seen(f, e)
           THEN /\ stack' = Goto(t, [f EXCEPT !.todo = Tail(@)])
                /\ UNCHANGED <<entries, ret, done>>
           ELSE IF valType = NilType
           THEN Panic(t, "panic:nil-type")
           ELSE IF isExactMatch(f.typ, valType)
           THEN /\ stack' = Call(t, [f EXCEPT !.pc = "append", !.todo = Tail(@),
                                              !.seen = @ \cup {e}, !.hit = TRUE],
                                 Frame("resolve", "start", f.c, NilType, NoToken, e))
                /\ UNCHANGED <<entries, ret, done>>
           ELSE /\ stack' = IF isSimilarType(f.typ, valType)
                            THEN Goto(t, [f EXCEPT !.todo = Tail(@),
                                                   !.seen = @ \cup {e},
                                                   !.sims = Append(@, e)])
                            ELSE Goto(t, [f EXCEPT !.todo = Tail(@)])
                /\ UNCHANGED <<entries, ret, done>>
        /\ UNCHANGED <<parent, registry, typeRegistry, callCount, cleared, history>>

\* The call returns: its caller goes on with the seen and the results the
\* callee leaves.
collectReturn(t) ==
    LET f == Top(t)
        caller == stack[t][2]
    IN  /\ ~Idle(t)
        /\ f.fn = "collectEntriesDirectly"
        /\ f.pc = "similar"
        /\ f.todo = <<>>
        /\ stack' = [stack EXCEPT ![t] =
                        <<[caller EXCEPT !.seen = f.seen, !.results = f.results]>>
                        \o Tail(Rest(t))]
        /\ UNCHANGED <<parent, registry, typeRegistry, entries, callCount, ret, done,
                       cleared, history>>

\* c.parent.collectEntriesDirectly(targetType, seen, results) has returned
collectParent(t) ==
    LET f == Top(t)
    IN  /\ ~Idle(t)
        /\ f.fn = "collectEntriesDirectly"
        /\ f.pc = "parent"
        /\ stack' = Goto(t, CollectSimilar(f))
        /\ UNCHANGED <<parent, registry, typeRegistry, entries, callCount, ret, done,
                       cleared, history>>

\* for _, e := range similarEntries: the e.resolve() of resolveAndConvert
collectSimilar(t) ==
    LET f == Top(t)
        e == Head(f.todo)
    IN  /\ ~Idle(t)
        /\ f.fn = "collectEntriesDirectly"
        /\ f.pc = "similar"
        /\ f.todo # <<>>
        /\ stack' = Call(t, [f EXCEPT !.pc = "convert", !.todo = Tail(@), !.e = e],
                         Frame("resolve", "start", f.c, NilType, NoToken, e))
        /\ UNCHANGED <<parent, registry, typeRegistry, entries, callCount, ret, done,
                       cleared, history>>

\* if resolved, ok := c.resolveAndConvert(targetType, e, true); ok
collectConvert(t) ==
    LET f == Top(t)
        r == resolveAndConvert(f.typ, ret[t].val, f.e)
    IN  /\ ~Idle(t)
        /\ f.fn = "collectEntriesDirectly"
        /\ f.pc = "convert"
        /\ IF r.out = "panic:reflect"
           THEN Panic(t, r.out)
           ELSE /\ stack' = Goto(t, [f EXCEPT !.pc = "similar",
                                              !.results = IF r.out = "ok"
                                                          THEN Append(@, r.val)
                                                          ELSE @])
                /\ ret' = [ret EXCEPT ![t] = NoRet]
                /\ UNCHANGED <<entries, done>>
        /\ UNCHANGED <<parent, registry, typeRegistry, callCount, cleared, history>>

\* The steps of a ResolveAll under way.
ResolveAll(t) ==
    \/ ResolveAllCapacity(t)
    \/ ResolveAllIndex(t)
    \/ ResolveAllLoop(t)
    \/ AppendResolved(t)
    \/ ResolveAllReturn(t)
    \/ collectScan(t)
    \/ collectLoop(t)
    \/ collectReturn(t)
    \/ collectParent(t)
    \/ collectSimilar(t)
    \/ collectConvert(t)

(***************************************************************************)
(* entry.resolve()                                                         *)
(***************************************************************************)
\* A resolve that memoizes whatever the lifecycle says.
NeverPrototype(ent) == FALSE

\* The lifecycle test of entry.resolve: the factory runs on every call.
IsPrototype(ent) == ent.lifecycle = Prototype

\* A Once that never sees its done flag set.
OnceNever(ent) == FALSE

\* The test of sync.Once.Do: the function has already run.
OnceDone(ent) == ent.once

\* History: a resolve call of entry e returns val.  The returns of the
\* entries registered as Prototype factories are kept.
Record(e, val) ==
    IF entries[e].lifecycle = Prototype /\ entries[e].factory.kind # "none"
    THEN /\ returned' = [returned EXCEPT ![e] = @ \cup {val.obj}]
         /\ resolutions' = [resolutions EXCEPT ![e] = @ + 1]
    ELSE UNCHANGED history

\* Up to the call of the factory (Prototype) or of once.Do (Singleton); the
\* fast path of once.Do, an atomic load of the done flag, is part of it.
entryResolve(t) ==
    LET f == Top(t)
        ent == entries[f.e]
    IN  /\ ~Idle(t)
        /\ f.fn = "resolve"
        /\ f.pc = "start"
        /\ IF ent.factory.kind = "none"
           THEN /\ Return(t, RetValue(ent.value, f.e))
                /\ UNCHANGED history
           ELSE IF IsPrototype(ent)
           THEN /\ stack' = Call(t, [f EXCEPT !.pc = "prototype"],
                                 Frame("factory", "call", f.c, NilType, NoToken, f.e))
                /\ UNCHANGED <<ret, done, history>>
           ELSE IF OnceDone(ent)
           THEN /\ Return(t, RetValue(ent.value, f.e))
                /\ Record(f.e, ent.value)
           ELSE /\ stack' = Goto(t, [f EXCEPT !.pc = "doSlow"])
                /\ UNCHANGED <<ret, done, history>>
        /\ UNCHANGED <<parent, registry, typeRegistry, entries, callCount, cleared>>

\* A resolve that keeps the product of a Prototype factory in the entry.
entryResolveStored(t) ==
    LET f == Top(t)
    IN  /\ ~Idle(t)
        /\ f.fn = "resolve"
        /\ f.pc = "prototype"
        /\ Return(t, [ret[t] EXCEPT !.e = f.e])
        /\ Record(f.e, ret[t].val)
        /\ entries' = [entries EXCEPT ![f.e].value = ret[t].val]
        /\ UNCHANGED <<parent, registry, typeRegistry, callCount, cleared>>

\* return e.factory()
entryResolvePrototype(t) ==
    LET f == Top(t)
    IN  /\ ~Idle(t)
        /\ f.fn = "resolve"
        /\ f.pc = "prototype"
        /\ Return(t, [ret[t] EXCEPT !.e = f.e])
        /\ Record(f.e, ret[t].val)
        /\ UNCHANGED <<parent, registry, typeRegistry, entries, callCount, cleared>>

(***************************************************************************)
(* sync.Once.doSlow: lock the mutex of the Once (waiting while another     *)
(* caller holds it), test the done flag again, and if it is still clear    *)
(* run the function: e.mu.Lock(), then e.factory().                        *)
(***************************************************************************)
onceDoSlow(t) ==
    LET f == Top(t)
        ent == entries[f.e]
    IN  /\ ~Idle(t)
        /\ f.fn = "resolve"
        /\ f.pc = "doSlow"
        /\ ent.onceM = 0
        /\ IF OnceDone(ent)
           THEN /\ Return(t, RetValue(ent.value, f.e))
                /\ Record(f.e, ent.value)
                /\ UNCHANGED entries
           ELSE /\ entries' = [entries EXCEPT ![f.e].onceM = t, ![f.e].mu = t]
                /\ stack' = Call(t, [f EXCEPT !.pc = "inOnce"],
                                 Frame("factory", "call", f.c, NilType, NoToken, f.e))
                /\ UNCHANGED <<ret, done, history>>
        /\ UNCHANGED <<parent, registry, typeRegistry, callCount, cleared>>

\* e.value = e.factory(); the deferred unlocks; the store of the done flag;
\* return e.value
onceFinish(t) ==
    LET f == Top(t)
    IN  /\ ~Idle(t)
        /\ f.fn = "resolve"
        /\ f.pc = "inOnce"
        /\ entries' = [entries EXCEPT ![f.e].value = ret[t].val, ![f.e].mu = 0,
                                      ![f.e].once = TRUE, ![f.e].onceM = 0]
        /\ Return(t, RetValue(ret[t].val, f.e))
        /\ Record(f.e, ret[t].val)
        /\ UNCHANGED <<parent, registry, typeRegistry, callCount, cleared>>

(***************************************************************************)
(* The factory of an entry: the call e.factory() of entry.resolve.         *)
(***************************************************************************)
RECURSIVE SumTo(_, _)
SumTo(s, n) == IF n = 0 THEN 0 ELSE s[n] + SumTo(s, n - 1)
TotalCalls == SumTo(callCount, Len(callCount))

factoryCall(t) ==
    LET f == Top(t)
        k == callCount[f.e] + 1
    IN  /\ ~Idle(t)
        /\ f.fn = "factory"
        /\ f.pc = "call"
        /\ TotalCalls < MaxCalls
        /\ callCount' = [callCount EXCEPT ![f.e] = k]
        /\ stack' = Goto(t, [f EXCEPT !.pc = "body", !.k = k])
        /\ UNCHANGED <<parent, registry, typeRegistry, entries, ret, done, cleared,
                       history>>

(***************************************************************************)
(* The body of the factory.  The closure of provideFactoryWithLifecycle    *)
(* calls the user's function, which makes a new object.  The closure of    *)
(* registerTo calls the wrappedFactory of buildAutoFactory, which is       *)
(* resolveAndCall on the container of the Bind call.                       *)
(***************************************************************************)
\* The container of the caller's lookup instead of the one the Bind named.
LookupContainer(f, fac) == f.c

\* The container that the closure of buildAutoFactory has captured.
CapturedContainer(f, fac) == fac.c

factoryBody(t) ==
    LET f == Top(t)
        fac == entries[f.e].factory
    IN  /\ ~Idle(t)
        /\ f.fn = "factory"
        /\ f.pc = "body"
        /\ IF fac.kind = "plain"
           THEN Return(t, RetValue(MkValue(fac.out, <<f.e, f.k>>), f.e))
           ELSE /\ stack' = Goto(t, [f EXCEPT !.fn = "resolveAndCall", !.pc = "loop",
                                              !.c = CapturedContainer(f, fac)])
                /\ UNCHANGED <<ret, done>>
        /\ UNCHANGED <<parent, registry, typeRegistry, entries, callCount, cleared,
                       history>>

(***************************************************************************)
(* resolveAndCall: resolve each parameter of the user's function from the  *)
(* container with resolveParameter, then call the function.                *)
(***************************************************************************)
\* The kinds of primitiveKinds, the sized variants of a kind taken together.
primitiveKinds ==
    {"bool", "int", "uint", "float", "string", "slice", "map", "chan"}

\* A list of primitive kinds that is empty.
NeverPrimitive(kind) == FALSE

isPrimitive(kind) == kind \in primitiveKinds

\* searchType of resolveParameter
SearchType(paramType) ==
    IF Kind(paramType) = "ptr" THEN Elem(paramType) ELSE paramType

\* reflect.Value.Call panics when an argument is not assignable to the type
\* of its parameter.
Callable(params, args) ==
    \A i \in 1 .. Len(params) : AssignableTo(args[i], params[i])

\* The loop head: the next parameter, or fnValue.Call(args) after the last.
\* The user's function makes a new object.
resolveAndCall(t) ==
    LET f == Top(t)
        fac == entries[f.e].factory
        i == Len(f.args) + 1
    IN  /\ ~Idle(t)
        /\ f.fn = "resolveAndCall"
        /\ f.pc = "loop"
        /\ IF i > Len(fac.params)
           THEN IF Callable(fac.params, f.args)
                THEN /\ Return(t, RetValue(MkValue(fac.out, <<f.e, f.k>>), f.e))
                     /\ UNCHANGED entries
                ELSE Panic(t, "panic:reflect")
           ELSE IF isPrimitive(Kind(SearchType(fac.params[i])))
           THEN Panic(t, "panic:primitive")
           ELSE /\ stack' = Call(t, [f EXCEPT !.pc = "resolveParameter"],
                                 Frame("Resolve", "typeRegistry", f.c,
                                       fac.params[i], NoToken, 0))
                /\ UNCHANGED <<entries, ret, done>>
        /\ UNCHANGED <<parent, registry, typeRegistry, callCount, cleared, history>>

\* resolveParameter after c.Resolve(paramType) returned.  The fallback for
\* the only parameter of a function builds a struct with Inject.
resolveParameter(t) ==
    LET f == Top(t)
        fac == entries[f.e].factory
        paramType == fac.params[Len(f.args) + 1]
    IN  /\ ~Idle(t)
        /\ f.fn = "resolveAndCall"
        /\ f.pc = "resolveParameter"
        /\ IF ret[t].out = "ok"
           THEN /\ stack' = Goto(t, [f EXCEPT !.pc = "loop",
                                              !.args = Append(@, ret[t].val.typ)])
                /\ ret' = [ret EXCEPT ![t] = NoRet]
                /\ UNCHANGED <<entries, done>>
           ELSE IF Len(fac.params) = 1 /\ Kind(SearchType(paramType)) = "struct"
           THEN /\ stack' = Call(t, [f EXCEPT !.pc = "injected"],
                                 Frame("Inject", "field", f.c, SearchType(paramType),
                                       NoToken, 0))
                /\ ret' = [ret EXCEPT ![t] = NoRet]
                /\ UNCHANGED <<entries, done>>
           ELSE Panic(t, "panic:auto-wire")
        /\ UNCHANGED <<parent, registry, typeRegistry, callCount, cleared, history>>

\* c.Inject(argValue.Interface()) has returned: return argValue.Elem(), the
\* struct itself.
resolveParameterInjected(t) ==
    LET f == Top(t)
        fac == entries[f.e].factory
        paramType == fac.params[Len(f.args) + 1]
    IN  /\ ~Idle(t)
        /\ f.fn = "resolveAndCall"
        /\ f.pc = "injected"
        /\ stack' = Goto(t, [f EXCEPT !.pc = "loop",
                                      !.args = Append(@, SearchType(paramType))])
        /\ UNCHANGED <<parent, registry, typeRegistry, entries, callCount, ret, done,
                       cleared, history>>

(***************************************************************************)
(* Container.Inject(target).  A target is the dynamic type of the argument *)
(* and, for a pointer, whether it is nil.  k counts the fields the loop    *)
(* has passed; results are the values set into the fields of the target,   *)
(* in the order in which they are set, the fields of a nested struct       *)
(* before the struct itself.                                               *)
(***************************************************************************)
Target(typ, isNil) == [typ |-> typ, isNil |-> isNil]

\* The struct that reflect.New(T) allocates, as set into a field.
NewStruct(T) == [typ |-> T, obj |-> NilObj, conv |-> "new"]

\* A panic of Inject that names nothing.
UnnamedField(struct, name) == "panic:unresolved-field"

\* The panic of Inject that names the field and the struct.
UnresolvedField(struct, name) ==
    CASE struct = "S" /\ name = "DB" -> "panic:unresolved-field S.DB"
      [] struct = "W" /\ name = "Any" -> "panic:unresolved-field W.Any"
      [] struct = "W" /\ name = "DB" -> "panic:unresolved-field W.DB"
      [] OTHER -> "panic:unresolved-field"

\* An Inject that starts on its loop whatever the target is.
CallInjectUnchecked(t, c, target) ==
    /\ c \in Containers
    /\ Start(t, Frame("Inject", "field", c,
                      IF Kind(target.typ) = "ptr" THEN Elem(target.typ) ELSE target.typ,
                      NoToken, 0))

\* Up to the loop over the fields: the checks of the target.  The calls
\* reflect.Value.Type of the nil target and reflect.Value.Field of the
\* pointee of a nil pointer panic inside reflect.
CallInject(t, c, target) ==
    /\ Idle(t)
    /\ c \in Containers
    /\ IF target.typ = NilType
       THEN Rejected(t, "Inject", c, "panic:reflect")
       ELSE IF Kind(target.typ) # "ptr" \/ Kind(Elem(target.typ)) # "struct"
       THEN Rejected(t, "Inject", c, "panic:invalid-target")
       ELSE IF target.isNil /\ Fields(Elem(target.typ)) # <<>>
       THEN Rejected(t, "Inject", c, "panic:reflect")
       ELSE Start(t, Frame("Inject", "field", c, Elem(target.typ), NoToken, 0))

\* The head of the loop: the next field, skipped when it cannot be set and
\* else resolved by its type.
InjectField(t) ==
    LET f == Top(t)
        field == Fields(f.typ)[f.k + 1]
    IN  /\ ~Idle(t)
        /\ f.fn = "Inject"
        /\ f.pc = "field"
        /\ f.k < Len(Fields(f.typ))
        /\ stack' = IF ~field.exported
                    THEN Goto(t, [f EXCEPT !.k = @ + 1])
                    ELSE Call(t, [f EXCEPT !.pc = "resolved"],
                              Frame("Resolve", "typeRegistry", f.c, field.typ, NoToken, 0))
        /\ UNCHANGED <<parent, registry, typeRegistry, entries, callCount, ret, done,
                       cleared, history>>

\* c.Resolve(field.Type) has returned: set the field, or inject a new
\* struct, or panic.  reflect.Value.Set panics on the zero Value that
\* reflect.ValueOf makes of a nil interface value.
InjectResolved(t) ==
    LET f == Top(t)
        field == Fields(f.typ)[f.k + 1]
    IN  /\ ~Idle(t)
        /\ f.fn = "Inject"
        /\ f.pc = "resolved"
        /\ IF ret[t].out = "ok"
           THEN IF ret[t].val.typ # NilType /\ AssignableTo(ret[t].val.typ, field.typ)
                THEN /\ stack' = Goto(t, [f EXCEPT !.pc = "field", !.k = @ + 1,
                                                   !.results = Append(@, ret[t].val)])
                     /\ ret' = [ret EXCEPT ![t] = NoRet]
                     /\ UNCHANGED <<entries, done>>
                ELSE Panic(t, "panic:reflect")
           ELSE IF Kind(field.typ) = "struct"
           THEN /\ stack' = Call(t, [f EXCEPT !.pc = "nested"],
                                 Frame("Inject", "field", f.c, field.typ, NoToken, 0))
                /\ ret' = [ret EXCEPT ![t] = NoRet]
                /\ UNCHANGED <<entries, done>>
           ELSE Panic(t, UnresolvedField(f.typ, field.name))
        /\ UNCHANGED <<parent, registry, typeRegistry, callCount, cleared, history>>

\* fieldValue.Set(newStruct.Elem())
InjectNested(t) ==
    LET f == Top(t)
        field == Fields(f.typ)[f.k + 1]
    IN  /\ ~Idle(t)
        /\ f.fn = "Inject"
        /\ f.pc = "nested"
        /\ stack' = Goto(t, [f EXCEPT !.pc = "field", !.k = @ + 1,
                                      !.results = Append(@, NewStruct(field.typ))])
        /\ UNCHANGED <<parent, registry, typeRegistry, entries, callCount, ret, done,
                       cleared, history>>

\* The loop is over.  What a nested Inject has set is part of what its
\* caller sets.
InjectReturn(t) ==
    LET f == Top(t)
        caller == stack[t][2]
    IN  /\ ~Idle(t)
        /\ f.fn = "Inject"
        /\ f.pc = "field"
        /\ f.k = Len(Fields(f.typ))
        /\ IF Len(stack[t]) = 1
           THEN Return(t, [out |-> "ok", val |-> NilValue, e |-> 0])
           ELSE /\ stack' = [stack EXCEPT ![t] =
                                <<[caller EXCEPT !.results = @ \o f.results]>>
                                \o Tail(Rest(t))]
                /\ UNCHANGED <<ret, done>>
        /\ UNCHANGED <<parent, registry, typeRegistry, entries, callCount, cleared,
                       history>>

(***************************************************************************)
(* Invoke(fn, c) and Call[T](fn, c).  The callable fn is a function with   *)
(* the parameter types fn.params and the result types fn.outs (none or     *)
(* one here), or a value that is no function.  typ is the type of the      *)
(* result.  reflect.Value.Call panics, before it calls the function, when  *)
(* an argument is not assignable to its parameter.                         *)
(***************************************************************************)
Func(params, outs) == [kind |-> "func", params |-> params, outs |-> outs]
NoFunc == [kind |-> "value", params |-> <<>>, outs |-> <<>>]

\* The types of the values vals.
TypesOf(vals) == [i \in 1 .. Len(vals) |-> vals[i].typ]

\* op is "Invoke", or "Call" with the type parameter want.
CallInvoke(t, op, c, fn, want) ==
    /\ Idle(t)
    /\ c \in Containers
    /\ IF fn.kind # "func"
       THEN Rejected(t, op, c, "panic:invalid-callable")
       ELSE Start(t, [Frame(op, "loop", c,
                            IF fn.outs = <<>> THEN NilType ELSE fn.outs[1], NoToken, 0)
                         EXCEPT !.params = fn.params, !.want = want])

\* The loop head: the next parameter, or fnValue.Call(args) after the last.
InvokeLoop(t) ==
    LET f == Top(t)
        i == Len(f.results) + 1
    IN  /\ ~Idle(t)
        /\ f.fn \in {"Invoke", "Call"}
        /\ f.pc = "loop"
        /\ IF i > Len(f.params)
           THEN IF Callable(f.params, TypesOf(f.results))
                THEN /\ stack' = Goto(t, [f EXCEPT !.pc = "called", !.calls = @ + 1])
                     /\ UNCHANGED <<entries, ret, done>>
                ELSE Panic(t, "panic:call")
           ELSE IF isPrimitive(Kind(SearchType(f.params[i])))
           THEN Panic(t, "panic:primitive")
           ELSE /\ stack' = Call(t, [f EXCEPT !.pc = "resolveParameter"],
                                 Frame("Resolve", "typeRegistry", f.c,
                                       f.params[i], NoToken, 0))
                /\ UNCHANGED <<entries, ret, done>>
        /\ UNCHANGED <<parent, registry, typeRegistry, callCount, cleared, history>>

\* resolveParameter after c.Resolve(paramType) returned, and the test of
\* its error in Invoke.
InvokeParameter(t) ==
    LET f == Top(t)
        paramType == f.params[Len(f.results) + 1]
    IN  /\ ~Idle(t)
        /\ f.fn \in {"Invoke", "Call"}
        /\ f.pc = "resolveParameter"
        /\ IF ret[t].out = "ok"
           THEN /\ stack' = Goto(t, [f EXCEPT !.pc = "loop",
                                              !.results = Append(@, ret[t].val)])
                /\ ret' = [ret EXCEPT ![t] = NoRet]
                /\ UNCHANGED <<entries, done>>
           ELSE IF Len(f.params) = 1 /\ Kind(SearchType(paramType)) = "struct"
           THEN /\ stack' = Call(t, [f EXCEPT !.pc = "injected"],
                                 Frame("Inject", "field", f.c, SearchType(paramType),
                                       NoToken, 0))
                /\ ret' = [ret EXCEPT ![t] = NoRet]
                /\ UNCHANGED <<entries, done>>
           ELSE Panic(t, "panic:unresolved-parameter")
        /\ UNCHANGED <<parent, registry, typeRegistry, callCount, cleared, history>>

\* c.Inject(argValue.Interface()) has returned: the argument is
\* argValue.Elem(), the struct itself.
InvokeInjected(t) ==
    LET f == Top(t)
    IN  /\ ~Idle(t)
        /\ f.fn \in {"Invoke", "Call"}
        /\ f.pc = "injected"
        /\ stack' = Goto(t, [f EXCEPT !.pc = "loop",
                                      !.results = <<NewStruct(SearchType(f.params[1]))>>])
        /\ UNCHANGED <<parent, registry, typeRegistry, entries, callCount, ret, done,
                       cleared, history>>

\* The callable has returned: Invoke returns its results, and Call asserts
\* results[0].(T).
InvokeReturn(t) ==
    LET f == Top(t)
        result == IF f.typ = NilType THEN NilValue ELSE MkValue(f.typ, <<0, f.calls>>)
    IN  /\ ~Idle(t)
        /\ f.fn \in {"Invoke", "Call"}
        /\ f.pc = "called"
        /\ IF f.fn = "Call" /\ f.typ = NilType
           THEN Panic(t, "panic:index")
           ELSE IF f.fn = "Call" /\ ~TypeAssert(result, f.want)
           THEN Panic(t, "panic:assert")
           ELSE /\ Return(t, RetValue(result, 0))
                /\ UNCHANGED entries
        /\ UNCHANGED <<parent, registry, typeRegistry, callCount, cleared, history>>

(***************************************************************************)
(* The state after package initialisation: the default container, made by  *)
(* New(), and n callers that have not called anything yet.                 *)
(***************************************************************************)
New(n) ==
    /\ parent = <<0>>
    /\ registry = <<{}>>
    /\ typeRegistry = <<EmptyTypeRegistry>>
    /\ entries = <<>>
    /\ callCount = <<>>
    /\ cleared = {}
    /\ returned = <<>>
    /\ resolutions = <<>>
    /\ stack = [t \in 1 .. n |-> <<>>]
    /\ ret = [t \in 1 .. n |-> NoRet]
    /\ done = [t \in 1 .. n |-> NoOp]

RECURSIVE SeqsUpTo(_, _)
SeqsUpTo(S, n) ==
    IF n = 0 THEN {<<>>}
    ELSE LET shorter == SeqsUpTo(S, n - 1)
         IN  shorter \cup {Append(q, x) : q \in shorter, x \in S}

(***************************************************************************)
(* Spec: one caller builds a chain of scoped containers, registers values  *)
(* of the types D and *D and values bound to a Token[I], clears            *)
(* containers, and resolves by type.                                       *)
(***************************************************************************)
Init == New(1)

Next ==
    \/ NewScoped(1, Len(parent))
    \/ \E c \in Containers, typ \in {"D", "PD"} : Provide(1, c, typ, FALSE)
    \/ \E c \in Containers : Register(1, c, <<Bind(<<"tok", 3>>, FALSE)>>)
    \/ \E c \in Containers : Clear(1, c)
    \/ \E c \in Containers, targetType \in {"D", "PD", "I"} :
          CallResolve(1, c, targetType)
    \/ Resolve(1)
    \/ ResolveReturn(1)
    \/ findSingleEntry(1)
    \/ findSingleEntryExact(1)
    \/ findSingleEntryParent(1)
    \/ findSingleEntrySimilar(1)
    \/ entryResolve(1)

Spec == Init /\ [][Next]_vars

(***************************************************************************)
(* SpecTokens: one caller registers batches of values bound to tokens in   *)
(* a chain of containers and gets them by token.                           *)
(***************************************************************************)
Binds == {Bind(<<"tok", n>>, FALSE) : n \in 1 .. 3}

NextTokens ==
    \/ NewScoped(1, Len(parent))
    \/ \E c \in Containers, regs \in SeqsUpTo(Binds, MaxBatch) : Register(1, c, regs)
    \/ \E c \in Containers, n \in 1 .. 3 : CallGet(1, c, <<"tok", n>>)
    \/ getEntry(1)
    \/ GetReturn(1)
    \/ entryResolve(1)

SpecTokens == Init /\ [][NextTokens]_vars

(***************************************************************************)
(* SpecScopes: one caller constructs root and scoped containers, among     *)
(* the calls NewScoped(nil), registers into them, clears them and asks     *)
(* for their parents.                                                      *)
(***************************************************************************)
NextScopes ==
    \/ NewRoot(1)
    \/ \E p \in {0} \cup Containers : NewScoped(1, p)
    \/ \E c \in Containers : Provide(1, c, "D", FALSE)
    \/ \E c \in Containers : Register(1, c, <<Bind(<<"tok", 1>>, FALSE)>>)
    \/ \E c \in Containers : Clear(1, c)
    \/ \E c \in Containers : Parent(1, c)

SpecScopes == Init /\ [][NextScopes]_vars

(***************************************************************************)
(* SpecProvide: one caller registers values and factories without tokens   *)
(* in the newest container of a chain, among them what the registration    *)
(* calls refuse.                                                           *)
(***************************************************************************)
Factories ==
    {FuncOf(<<"PD">>), FuncOf(<<>>), FuncOf(<<"PD", "PD">>), NotAFunc, NilFunc}

NextProvide ==
    \/ NewScoped(1, Len(parent))
    \/ \E typ \in {NilType, "PD"} : Provide(1, Len(parent), typ, FALSE)
    \/ \E fn \in Factories, lifecycle \in {Singleton, Prototype} :
          provideFactoryWithLifecycle(1, Len(parent), fn, lifecycle)

SpecProvide == Init /\ [][NextProvide]_vars

(***************************************************************************)
(* SpecAll: one caller provides values in a chain of containers, clears    *)
(* containers and resolves all the values of a type.                       *)
(***************************************************************************)
NextAll ==
    \/ NewScoped(1, Len(parent))
    \/ \E c \in Containers, typ \in {"D", "PD"} : Provide(1, c, typ, FALSE)
    \/ \E c \in Containers : Clear(1, c)
    \/ \E c \in Containers, targetType \in {"D", "PD"} :
          CallResolveAll(1, c, targetType)
    \/ ResolveAllCapacity(1)
    \/ ResolveAllIndex(1)
    \/ ResolveAllLoop(1)
    \/ AppendResolved(1)
    \/ ResolveAllReturn(1)
    \/ collectScan(1)
    \/ collectLoop(1)
    \/ collectReturn(1)
    \/ collectParent(1)
    \/ collectSimilar(1)
    \/ collectConvert(1)
    \/ entryResolve(1)

SpecAll == Init /\ [][NextAll]_vars

(***************************************************************************)
(* SpecAtomic: caller 1 builds a chain of containers and registers         *)
(* batches of bindings in it while caller 2 gets, finds and resolves.      *)
(***************************************************************************)
PointerBinds == {Bind(<<"tok", n>>, FALSE) : n \in 1 .. 2}

\* The caller that reads while caller 1 registers.
Readers == {2}

NextAtomic ==
    \/ entries = <<>> /\ (\A t \in Threads : Idle(t)) /\ NewScoped(1, Len(parent))
    \/ \E c \in Containers, regs \in SeqsUpTo(PointerBinds, MaxBatch) :
          Len(regs) > 1 /\ RegisterLock(1, c, regs)
    \/ RegisterTo(1)
    \/ RegisterUnlock(1)
    \/ \E t \in Readers :
          \/ \E n \in 1 .. 2 : CallGet(t, Len(parent), <<"tok", n>>)
          \/ \E n \in 1 .. 2 : CallFind(t, Len(parent), <<"tok", n>>)
          \/ \E targetType \in {"D", "PD"} : CallResolve(t, Len(parent), targetType)
          \/ \E targetType \in {"D", "PD"} : CallResolveAll(t, Len(parent), targetType)
          \/ getEntry(t)
          \/ GetReturn(t)
          \/ FindReturn(t)
          \/ Resolve(t)
          \/ ResolveReturn(t)
          \/ findSingleEntry(t)
          \/ findSingleEntryExact(t)
          \/ findSingleEntryParent(t)
          \/ findSingleEntrySimilar(t)
          \/ ResolveAllCapacity(t)
          \/ ResolveAllIndex(t)
          \/ ResolveAllLoop(t)
          \/ AppendResolved(t)
          \/ ResolveAllReturn(t)
          \/ collectScan(t)
          \/ collectLoop(t)
          \/ collectReturn(t)
          \/ collectParent(t)
          \/ collectSimilar(t)
          \/ collectConvert(t)
          \/ entryResolve(t)

SpecAtomic == New(NumThreads) /\ [][NextAtomic]_vars

(***************************************************************************)
(* SpecInject: one caller provides values and factories and binds an       *)
(* interface token in a chain of containers, and injects into targets of   *)
(* every shape.                                                            *)
(***************************************************************************)
Targets ==
    {Target(NilType, FALSE), Target("W", FALSE), Target("PPD", FALSE),
     Target("PD", FALSE), Target("PS", FALSE), Target("PS", TRUE),
     Target("PW", FALSE)}

NextInject ==
    \/ NewScoped(1, Len(parent))
    \/ \E c \in Containers, typ \in {"D", "PD"} : Provide(1, c, typ, FALSE)
    \/ Register(1, 1, <<Bind(<<"tok", 3>>, FALSE)>>)
    \/ provideFactoryWithLifecycle(1, 1, FuncOf(<<"PD">>), Singleton)
    \/ \E c \in Containers, target \in Targets : CallInject(1, c, target)
    \/ InjectField(1)
    \/ InjectResolved(1)
    \/ InjectNested(1)
    \/ InjectReturn(1)
    \/ Resolve(1)
    \/ ResolveReturn(1)
    \/ findSingleEntry(1)
    \/ findSingleEntryExact(1)
    \/ findSingleEntryParent(1)
    \/ findSingleEntrySimilar(1)
    \/ entryResolve(1)
    \/ onceDoSlow(1)
    \/ onceFinish(1)
    \/ factoryCall(1)
    \/ factoryBody(1)

SpecInject == Init /\ [][NextInject]_vars

(***************************************************************************)
(* SpecInvoke: one caller provides values in a chain of containers and     *)
(* invokes callables of several shapes on them.                            *)
(***************************************************************************)
Callables ==
    {Func(<<>>, <<"PD">>), Func(<<"PD">>, <<"PD">>), Func(<<"PD", "I">>, <<>>),
     Func(<<"S">>, <<"PS">>), Func(<<"PS">>, <<"PS">>), Func(<<"D", "PS">>, <<>>),
     NoFunc}

NextInvoke ==
    \/ NewScoped(1, Len(parent))
    \/ \E c \in Containers, typ \in {"D", "PD"} : Provide(1, c, typ, FALSE)
    \/ \E c \in Containers, fn \in Callables : CallInvoke(1, "Invoke", c, fn, NilType)
    \/ \E c \in Containers, fn \in Callables : CallInvoke(1, "Call", c, fn, "PD")
    \/ InvokeLoop(1)
    \/ InvokeParameter(1)
    \/ InvokeInjected(1)
    \/ InvokeReturn(1)
    \/ InjectField(1)
    \/ InjectResolved(1)
    \/ InjectReturn(1)
    \/ Resolve(1)
    \/ ResolveReturn(1)
    \/ findSingleEntry(1)
    \/ findSingleEntryExact(1)
    \/ findSingleEntryParent(1)
    \/ findSingleEntrySimilar(1)
    \/ entryResolve(1)

SpecInvoke == Init /\ [][NextInvoke]_vars

(***************************************************************************)
(* SpecAuto: one caller provides values in a chain of containers, binds    *)
(* auto-wired factories that name one container and registers them into    *)
(* another, and gets them by token from a third.                           *)
(***************************************************************************)
NextAuto ==
    \/ NewScoped(1, Len(parent))
    \/ \E c \in Containers :
          /\ typeRegistry[c]["PD"] = <<>>
          /\ Provide(1, c, "PD", FALSE)
    \/ \E c \in Containers, named \in Containers, lifecycle \in {Singleton, Prototype} :
          /\ \A e \in EntryIds : entries[e].factory.kind # "auto"
          /\ Register(1, c, <<buildAutoFactory(<<"tok", 4>>, <<"PD">>, lifecycle, named)>>)
    \/ \E c \in Containers : CallGet(1, c, <<"tok", 4>>)
    \/ getEntry(1)
    \/ GetReturn(1)
    \/ entryResolve(1)
    \/ entryResolvePrototype(1)
    \/ onceDoSlow(1)
    \/ onceFinish(1)
    \/ factoryCall(1)
    \/ factoryBody(1)
    \/ resolveAndCall(1)
    \/ resolveParameter(1)
    \/ resolveParameterInjected(1)
    \/ InjectReturn(1)
    \/ Resolve(1)
    \/ ResolveReturn(1)
    \/ findSingleEntry(1)
    \/ findSingleEntryExact(1)
    \/ findSingleEntryParent(1)

SpecAuto == Init /\ [][NextAuto]_vars

(***************************************************************************)
(* SpecMatch: one caller provides pointer values and factories that return *)
(* the interface, in a chain of containers, and resolves the pointer type  *)
(* and the interface type.                                                 *)
(***************************************************************************)
NextMatch ==
    \/ NewScoped(1, Len(parent))
    \/ \E c \in Containers : Provide(1, c, "PD", FALSE)
    \/ \E c \in Containers : provideFactoryWithLifecycle(1, c, FuncOf(<<"I">>), Singleton)
    \/ \E c \in Containers, targetType \in {"PD", "I"} : CallResolve(1, c, targetType)
    \/ Resolve(1)
    \/ ResolveReturn(1)
    \/ findSingleEntry(1)
    \/ findSingleEntryExact(1)
    \/ findSingleEntryParent(1)
    \/ entryResolve(1)
    \/ onceDoSlow(1)
    \/ onceFinish(1)
    \/ factoryCall(1)
    \/ factoryBody(1)

SpecMatch == Init /\ [][NextMatch]_vars

(***************************************************************************)
(* SpecSimilar: one caller builds a chain of containers from the root      *)
(* down, provides struct values, pointers and nil pointers in the newest   *)
(* container, and looks the struct type and the pointer type up in any     *)
(* container with Resolve and the struct type with ResolveAll.             *)
(***************************************************************************)
NextSimilar ==
    \/ NewScoped(1, Len(parent))
    \/ \E typ \in {"D", "PD"}, isNil \in BOOLEAN : Provide(1, Len(parent), typ, isNil)
    \/ \E c \in Containers, targetType \in {"D", "PD"} : CallResolve(1, c, targetType)
    \/ \E c \in Containers : CallResolveAll(1, c, "D")
    \/ Resolve(1)
    \/ ResolveReturn(1)
    \/ findSingleEntry(1)
    \/ findSingleEntryExact(1)
    \/ findSingleEntryParent(1)
    \/ findSingleEntrySimilar(1)
    \/ ResolveAll(1)
    \/ entryResolve(1)

SpecSimilar == Init /\ [][NextSimilar]_vars

(***************************************************************************)
(* SpecCollect: one caller builds a chain of containers from the root      *)
(* down, provides struct values, pointers and Prototype factories of       *)
(* pointers in the newest container, and calls ResolveAll for the struct   *)
(* type and the pointer type on any container.                             *)
(***************************************************************************)
NextCollect ==
    \/ NewScoped(1, Len(parent))
    \/ \E typ \in {"D", "PD"} : Provide(1, Len(parent), typ, FALSE)
    \/ provideFactoryWithLifecycle(1, Len(parent), FuncOf(<<"PD">>), Prototype)
    \/ \E c \in Containers, targetType \in {"D", "PD"} :
          CallResolveAll(1, c, targetType)
    \/ ResolveAll(1)
    \/ entryResolve(1)
    \/ entryResolvePrototype(1)
    \/ factoryCall(1)
    \/ factoryBody(1)

SpecCollect == Init /\ [][NextCollect]_vars

(***************************************************************************)
(* SpecPrimitive: one caller provides an int and a pointer in the default  *)
(* container, registers auto-wired factories and invokes callables whose   *)
(* parameters are an int, a pointer to an int or pointers to a struct,     *)
(* and gets the factories by token.                                        *)
(***************************************************************************)
PrimitiveParams == {<<"int">>, <<"Pint">>, <<"PD", "int">>, <<"PD", "PD">>}

NextPrimitive ==
    \/ \E typ \in {"int", "PD"} :
          typeRegistry[1][typ] = <<>> /\ Provide(1, 1, typ, FALSE)
    \/ \E params \in PrimitiveParams :
          Register(1, 1, <<buildAutoFactory(<<"tok", 4>>, params, Prototype, 1)>>)
    \/ \E params \in PrimitiveParams : CallInvoke(1, "Invoke", 1, Func(params, <<>>), NilType)
    \/ \E params \in PrimitiveParams : CallInvoke(1, "Call", 1, Func(params, <<"PD">>), "PD")
    \/ CallGet(1, 1, <<"tok", 4>>)
    \/ getEntry(1)
    \/ GetReturn(1)
    \/ InvokeLoop(1)
    \/ InvokeParameter(1)
    \/ InvokeReturn(1)
    \/ entryResolve(1)
    \/ entryResolvePrototype(1)
    \/ factoryCall(1)
    \/ factoryBody(1)
    \/ resolveAndCall(1)
    \/ resolveParameter(1)
    \/ Resolve(1)
    \/ ResolveReturn(1)
    \/ findSingleEntry(1)

SpecPrimitive == Init /\ [][NextPrimitive]_vars

(***************************************************************************)
(* SpecLocks: one caller builds a chain of containers, provides a pointer  *)
(* in the root, registers an auto-wired Prototype factory that names any   *)
(* container into any container, and reaches it with Get and ResolveAll.   *)
(***************************************************************************)
NextLocks ==
    \/ NewScoped(1, Len(parent))
    \/ typeRegistry[1]["PD"] = <<>> /\ Provide(1, 1, "PD", FALSE)
    \/ \E c \in Containers, named \in Containers :
          /\ \A e \in EntryIds : entries[e].factory.kind # "auto"
          /\ Register(1, c, <<buildAutoFactory(<<"tok", 4>>, <<"PD">>, Prototype, named)>>)
    \/ \E c \in Containers : CallGet(1, c, <<"tok", 4>>)
    \/ \E c \in Containers : CallResolveAll(1, c, "PS")
    \/ getEntry(1)
    \/ GetReturn(1)
    \/ ResolveAllCapacity(1)
    \/ ResolveAllIndex(1)
    \/ ResolveAllLoop(1)
    \/ AppendResolved(1)
    \/ ResolveAllReturn(1)
    \/ collectScan(1)
    \/ collectLoop(1)
    \/ collectReturn(1)
    \/ collectParent(1)
    \/ entryResolve(1)
    \/ entryResolvePrototype(1)
    \/ factoryCall(1)
    \/ factoryBody(1)
    \/ resolveAndCall(1)
    \/ resolveParameter(1)
    \/ resolveParameterInjected(1)
    \/ InjectReturn(1)
    \/ Resolve(1)
    \/ ResolveReturn(1)
    \/ findSingleEntry(1)
    \/ findSingleEntryParent(1)

SpecLocks == Init /\ [][NextLocks]_vars

(***************************************************************************)
(* SpecRace: caller 1 builds a chain of containers and then provides       *)
(* pointers in any container of it, while caller 2, who has called         *)
(* Resolve on the innermost container before the first of the              *)
(* registrations, searches the chain.  Nothing is ever removed, so the     *)
(* entries 1 .. k are the contents of the chain after k registrations.     *)
(***************************************************************************)
NextRace ==
    \/ entries = <<>> /\ (\A t \in Threads : Idle(t)) /\ NewScoped(1, Len(parent))
    \/ \E c \in Containers : Provide(1, c, "PD", FALSE)
    \/ \E t \in Readers :
          \/ entries = <<>> /\ CallResolve(t, Len(parent), "PD")
          \/ Resolve(t)
          \/ ResolveReturn(t)
          \/ findSingleEntry(t)
          \/ findSingleEntryExact(t)
          \/ findSingleEntryParent(t)
          \/ entryResolve(t)

SpecRace == New(NumThreads) /\ [][NextRace]_vars

(***************************************************************************)
(* SpecFind: one caller binds values, among them the nil value of the      *)
(* interface type I, to tokens in a chain of containers and looks them up  *)
(* with Get and with Find.                                                 *)
(***************************************************************************)
FindBinds ==
    {Bind(<<"tok", 1>>, FALSE), Bind(<<"tok", 3>>, FALSE), Bind(<<"tok", 3>>, TRUE)}

NextFind ==
    \/ NewScoped(1, Len(parent))
    \/ \E c \in Containers, r \in FindBinds : Register(1, c, <<r>>)
    \/ \E c \in Containers, n \in {1, 3} : CallGet(1, c, <<"tok", n>>)
    \/ \E c \in Containers, n \in {1, 3} : CallFind(1, c, <<"tok", n>>)
    \/ getEntry(1)
    \/ GetReturn(1)
    \/ FindReturn(1)
    \/ entryResolve(1)

SpecFind == Init /\ [][NextFind]_vars

(***************************************************************************)
(* SpecEntry: concurrent callers resolve the factory entries of the        *)
(* default container: factories given to ProvideFactory and                *)
(* ProvidePrototype that return a *D, resolved by type, and auto-wired      *)
(* factories bound to a Token[*S], got by token: a Singleton one that      *)
(* takes one parameter of the interface type I and a Prototype one that    *)
(* takes nothing.                                                          *)
(* The factories are registered before the callers start.                  *)
(***************************************************************************)
AutoFactories ==
    {buildAutoFactory(<<"tok", 4>>, <<"I">>, Singleton, 1),
     buildAutoFactory(<<"tok", 4>>, <<>>, Prototype, 1)}

InitEntry == New(NumThreads)

\* No caller has called anything yet.
Fresh ==
    /\ Len(entries) < MaxFactories
    /\ \A t \in Threads : Idle(t) /\ done[t] = NoOp

NextEntry ==
    \/ \E lifecycle \in {Singleton, Prototype} :
          Fresh /\ provideFactoryWithLifecycle(1, 1, FuncOf(<<"PD">>), lifecycle)
    \/ \E r \in AutoFactories : Fresh /\ Register(1, 1, <<r>>)
    \/ \E t \in Threads : CallResolve(t, 1, "PD")
    \/ \E t \in Threads : CallGet(t, 1, <<"tok", 4>>)
    \/ \E t \in Threads :
          \/ getEntry(t)
          \/ GetReturn(t)
          \/ Resolve(t)
          \/ ResolveReturn(t)
          \/ findSingleEntry(t)
          \/ findSingleEntryExact(t)
          \/ entryResolve(t)
          \/ entryResolvePrototype(t)
          \/ onceDoSlow(t)
          \/ onceFinish(t)
          \/ factoryCall(t)
          \/ factoryBody(t)
          \/ resolveAndCall(t)
          \/ resolveParameter(t)

SpecEntry == InitEntry /\ [][NextEntry]_vars

(***************************************************************************)
(* Properties of the factory entries, under SpecEntry.                     *)
(***************************************************************************)
SingletonFactories ==
    {e \in EntryIds : entries[e].factory.kind # "none"
                      /\ entries[e].lifecycle = Singleton}

PrototypeFactories ==
    {e \in EntryIds : entries[e].factory.kind # "none"
                      /\ entries[e].lifecycle = Prototype}

\* Thread t has finished a Get or Resolve that returned from entry e.
ReturnedFrom(t, e) == done[t].out = "ok" /\ done[t].e = e

\* C1: the factory of a Singleton factory entry (the function entry.resolve
\* calls as e.factory()) is never called a second time, and once any Get or
\* Resolve call on the entry has returned, or the Once of the entry is done,
\* it has been called exactly once, however many callers raced.
C1_SingletonInvokedOnce ==
    \A e \in SingletonFactories :
        /\ callCount[e] <= 1
        /\ entries[e].once => callCount[e] = 1
        /\ (\E t \in Threads : ReturnedFrom(t, e)) => callCount[e] = 1

\* Two callers have both returned from the same Singleton factory entry.
C1_Witness ==
    \E e \in SingletonFactories, t1, t2 \in Threads :
        /\ t1 # t2
        /\ ReturnedFrom(t1, e)
        /\ ReturnedFrom(t2, e)
        /\ callCount[e] = 1

\* C2: a Get or Resolve call that returns from a Singleton factory entry
\* returns after the single call of the factory has completed (the Once is
\* done), and it returns the instance that call produced.
C2_SingletonSameInstance ==
    \A e \in SingletonFactories, t \in Threads :
        ReturnedFrom(t, e) =>
            /\ entries[e].once
            /\ done[t].val.obj = <<e, 1>>

\* The invocations of entry e's factory that have started and whose resolve
\* call has not returned yet.
InFlight(e) ==
    Cardinality({<<t, i>> \in Threads \X (1 .. MaxEntries + 8) :
        /\ i <= Len(stack[t])
        /\ stack[t][i].e = e
        /\ \/ stack[t][i].fn = "factory" /\ stack[t][i].pc = "body"
           \/ stack[t][i].fn = "resolveAndCall"
           \/ stack[t][i].fn = "resolve" /\ stack[t][i].pc = "prototype" /\ i = 1})

\* C3: for a Prototype factory entry the resolve calls that have returned
\* and the factory calls still in flight add up to the calls of the factory,
\* the results returned are pairwise distinct, and each is the product of
\* a call of this entry's factory.
C3_PrototypeEachCall ==
    \A e \in PrototypeFactories :
        /\ callCount[e] = resolutions[e] + InFlight(e)
        /\ Cardinality(returned[e]) = resolutions[e]
        /\ \A obj \in returned[e] : obj[1] = e /\ obj[2] \in 1 .. callCount[e]

\* Two callers hold the results of two resolutions of one Prototype entry.
C3_Witness ==
    \E e \in PrototypeFactories, t1, t2 \in Threads :
        /\ t1 # t2
        /\ ReturnedFrom(t1, e)
        /\ ReturnedFrom(t2, e)
        /\ resolutions[e] = 2
        /\ callCount[e] = 2

(***************************************************************************)
(* Properties of the lookups by type in a chain of containers, under Spec. *)
(***************************************************************************)
\* Thread t has finished a Resolve call (it returned or it panicked).
Resolved(t) == done[t].op = "Resolve" /\ done[t].out # "none"

\* The entries container c holds, in either map, with declared type T.
LocalOfType(c, T) ==
    {p[2] : p \in {q \in registry[c] : entries[q[2]].depType = T}}
        \cup {typeRegistry[c][T][i] : i \in 1 .. Len(typeRegistry[c][T])}

\* Entry e was created by Provide and still holds the value given to it.
ProvidedValue(e) ==
    entries[e].factory.kind = "none" /\ entries[e].value = MkValue(entries[e].depType, <<e, 0>>)

\* C4: when the value v given to Provide is the only entry of declared type
\* T in a container, a Resolve(T) on that container succeeds and returns
\* exactly v (the finished call is judged in the state it returned in: the
\* next registration or Clear starts a new call).
C4_ProvidedValueResolves ==
    \A t \in Threads, e \in EntryIds :
        (/\ Resolved(t)
         /\ ProvidedValue(e)
         /\ LocalOfType(done[t].c, done[t].typ) = {e}
         /\ typeRegistry[done[t].c][done[t].typ] = <<e>>)
        => /\ done[t].out = "ok"
           /\ done[t].e = e
           /\ done[t].val = MkValue(done[t].typ, <<e, 0>>)

\* A Resolve has returned the only provided value of its type.
C4_Witness ==
    \E t \in Threads, e \in EntryIds :
        /\ Resolved(t)
        /\ ProvidedValue(e)
        /\ LocalOfType(done[t].c, done[t].typ) = {e}
        /\ done[t].val = MkValue(done[t].typ, <<e, 0>>)

\* C5: when a scoped container holds exactly one local entry of declared
\* type T, Resolve(T) on it returns the value of that entry, whatever its
\* ancestors hold.
C5_LocalOverridesParent ==
    \A t \in Threads :
        LET c == done[t].c
            local == typeRegistry[c][done[t].typ]
        IN  (/\ Resolved(t)
             /\ parent[c] # 0
             /\ Len(local) = 1
             /\ LocalOfType(c, done[t].typ) = {local[1]})
            => /\ done[t].out = "ok"
               /\ done[t].e = local[1]
               /\ done[t].val = entries[local[1]].value

\* A Resolve on a scoped container has returned its local entry although
\* the parent holds an entry of the same declared type.
C5_Witness ==
    \E t \in Threads :
        LET c == done[t].c
        IN  /\ Resolved(t)
            /\ parent[c] # 0
            /\ Len(typeRegistry[c][done[t].typ]) = 1
            /\ Len(typeRegistry[parent[c]][done[t].typ]) >= 1
            /\ done[t].e = typeRegistry[c][done[t].typ][1]

\* The entries of container c whose declared type matches T exactly, and
\* those whose declared type is similar to T.
ExactIn(c, T) ==
    {p[2] : p \in {q \in registry[c] :
        /\ entries[q[2]].depType # NilType
        /\ isExactMatch(T, entries[q[2]].depType)}}

SimilarIn(c, T) ==
    {p[2] : p \in {q \in registry[c] :
        /\ entries[q[2]].depType # NilType
        /\ ~isExactMatch(T, entries[q[2]].depType)
        /\ isSimilarType(T, entries[q[2]].depType)}}

\* The nearest container from c upwards that holds an exact match of T; 0
\* if there is none.
RECURSIVE NearestExact(_, _)
NearestExact(c, T) ==
    IF c = 0 THEN 0
    ELSE IF ExactIn(c, T) # {} THEN c
    ELSE NearestExact(parent[c], T)

RECURSIVE ChainHasMatch(_, _)
ChainHasMatch(c, T) ==
    /\ c # 0
    /\ \/ ExactIn(c, T) \cup SimilarIn(c, T) # {}
       \/ ChainHasMatch(parent[c], T)

\* C6: a Resolve(T) on a scoped container without a local entry matching T
\* (exactly or similarly) returns the value of the exact match of the
\* nearest ancestor that has one, and reports not-found only when no
\* container of the chain holds a match.  (A chain in which two entries of
\* one container match T exactly is left aside.)
C6_FallThrough ==
    \A t \in Threads :
        LET c == done[t].c
            T == done[t].typ
            a == NearestExact(parent[c], T)
        IN  (/\ Resolved(t)
             /\ parent[c] # 0
             /\ ExactIn(c, T) \cup SimilarIn(c, T) = {}
             /\ done[t].out # "panic:ambiguous")
            => /\ done[t].out \in {"ok", "notfound"}
               /\ a # 0 => /\ done[t].out = "ok"
                           /\ done[t].e \in ExactIn(a, T)
                           /\ done[t].val = entries[done[t].e].value
               /\ done[t].out = "notfound" => ~ChainHasMatch(c, T)

\* Every Get and Resolve on container p answers as before the step: the
\* maps of p, every key and type looked up in them and every scan of them
\* are the same, and so is every entry that existed.
SameAnswers(p) ==
    /\ parent'[p] = parent[p]
    /\ registry'[p] = registry[p]
    /\ typeRegistry'[p] = typeRegistry[p]
    /\ \A T \in Types : /\ TypeLoad(p, T)' = TypeLoad(p, T)
                        /\ ScanResults(p, T)' = ScanResults(p, T)
    /\ \A token \in UserTokens :
          MapLoad(registry[p], token)' = MapLoad(registry[p], token)
    /\ \A e \in EntryIds : entries'[e] = entries[e]

\* Container a is c or an ancestor of c.
RECURSIVE InChain(_, _)
InChain(a, c) == c # 0 /\ (a = c \/ InChain(a, parent[c]))

\* A registration call on container c.
RegistersInto(c) ==
    \/ \E typ \in {"D", "PD"} : Provide(1, c, typ, FALSE)
    \/ Register(1, c, <<Bind(<<"tok", 3>>, FALSE)>>)

C8_ClearKeepsParent ==
    \A c \in cleared :
        /\ registry[c] = {}
        /\ typeRegistry[c] = EmptyTypeRegistry
        /\ \A t \in Threads :
              (Resolved(t) /\ done[t].c = c /\ parent[c] # 0) =>
                  LET up == typeRegistry[parent[c]][done[t].typ]
                  IN  /\ (\A a \in Containers : registry[a] = {})
                            => done[t].out = "notfound"
                      /\ Len(up) = 1 => /\ done[t].out = "ok"
                                        /\ done[t].e = up[1]
                                        /\ done[t].val = entries[up[1]].value

\* C9: when the local type index of a container lists two or more entries
\* under T, Resolve(T) on it fails as ambiguous, whatever the parent chain
\* holds.
C9_AmbiguousLocal ==
    \A t \in Threads :
        (Resolved(t) /\ Len(typeRegistry[done[t].c][done[t].typ]) >= 2)
            => done[t].out = "panic:ambiguous"

\* A Resolve on a scoped container failed as ambiguous although its parent
\* holds exactly one entry of the type.
C9_Witness ==
    \E t \in Threads :
        /\ Resolved(t)
        /\ Len(typeRegistry[done[t].c][done[t].typ]) >= 2
        /\ parent[done[t].c] # 0
        /\ Len(typeRegistry[parent[done[t].c]][done[t].typ]) = 1
        /\ done[t].out = "panic:ambiguous"

(***************************************************************************)
(* Properties of the lookups by token, under SpecTokens.                   *)
(***************************************************************************)
\* C10: a Get with a token bound in the container succeeds and returns the
\* value bound to that very token, however many entries of the same type
\* the container holds under other tokens.
C10_GetByHandle ==
    \A t \in Threads, e \in EntryIds :
        (/\ done[t].op = "Get"
         /\ done[t].out # "none"
         /\ <<done[t].tok, e>> \in registry[done[t].c])
        => /\ done[t].out = "ok"
           /\ done[t].e = e
           /\ done[t].val = entries[e].value
           /\ done[t].val.obj = <<e, 0 - done[t].tok[2]>>

\* A Get returned the value of its token from a container that holds two
\* entries of the same type under two tokens.
C10_Witness ==
    \E t \in Threads, e1, e2 \in EntryIds :
        /\ e1 # e2
        /\ done[t].op = "Get"
        /\ done[t].out = "ok"
        /\ done[t].e = e1
        /\ <<<<"tok", 1>>, e1>> \in registry[done[t].c]
        /\ <<<<"tok", 2>>, e2>> \in registry[done[t].c]
        /\ typeRegistry[done[t].c]["PD"] = <<e1, e2>>
        /\ done[t].tok = <<"tok", 1>>

\* The nearest container from c upwards whose handle map binds token; 0 if
\* no container of the chain binds it.
RECURSIVE NearestBinding(_, _)
NearestBinding(c, token) ==
    IF c = 0 THEN 0
    ELSE IF MapLoad(registry[c], token) # 0 THEN c
    ELSE NearestBinding(parent[c], token)

\* Thread t has finished a Get call (it returned or it panicked).
GotBy(t) == done[t].op = "Get" /\ done[t].out # "none"

\* C11: a Get returns the entry of the first container, from the one it is
\* called on towards the root, whose handle map binds the token: a local
\* binding shadows the bindings of the ancestors, and a binding of an
\* ancestor is found through a descendant.
C11_GetNearestBinding ==
    \A t \in Threads :
        LET a == NearestBinding(done[t].c, done[t].tok)
        IN  (GotBy(t) /\ a # 0) =>
                /\ done[t].out = "ok"
                /\ done[t].e = MapLoad(registry[a], done[t].tok)
                /\ done[t].val = entries[done[t].e].value

\* A Get on a scoped container returned the local binding of a token that
\* its parent binds too.
C11_Witness ==
    \E t \in Threads :
        LET c == done[t].c
        IN  /\ GotBy(t)
            /\ parent[c] # 0
            /\ MapLoad(registry[c], done[t].tok) # 0
            /\ MapLoad(registry[parent[c]], done[t].tok) # 0
            /\ done[t].e = MapLoad(registry[c], done[t].tok)

(***************************************************************************)
(* Properties of Get and Find, under SpecFind.                             *)
(***************************************************************************)
\* Thread t has finished a Find call (it returned or it panicked).
FoundBy(t) == done[t].op = "Find" /\ done[t].out # "none"

\* C12: a Get fails as not-found exactly when no container of the chain
\* binds the token; in those states a Find reports false without failing,
\* and in every other state it reports true with the value of the binding
\* that a Get returns.
C12_GetFindAgree ==
    \A t \in Threads :
        LET a == NearestBinding(done[t].c, done[t].tok)
        IN  /\ GotBy(t) => (done[t].out = "panic:not-found" <=> a = 0)
            /\ FoundBy(t) =>
                  IF a = 0
                  THEN done[t].out = "notfound"
                  ELSE /\ done[t].out = "ok"
                       /\ done[t].e = MapLoad(registry[a], done[t].tok)
                       /\ done[t].val = entries[done[t].e].value

(***************************************************************************)
(* Properties of the parent links, under SpecScopes.                       *)
(***************************************************************************)
\* C13: no step changes the parent of a container that exists; a container
\* made by New has no parent and one made by NewScoped(p) has the parent p;
\* NewScoped(nil) fails and makes no container; Parent() answers with the
\* parent given at construction, whatever was registered or cleared since.
C13_ParentFixed ==
    [][/\ \A c \in Containers : parent'[c] = parent[c]
       /\ NewRoot(1) => parent' = Append(parent, 0)
       /\ \A p \in Containers : NewScoped(1, p) => parent' = Append(parent, p)
       /\ NewScoped(1, 0) => /\ parent' = parent
                             /\ registry' = registry
                             /\ typeRegistry' = typeRegistry
                             /\ done'[1].out = "panic:nil-parent"
       /\ \A c \in Containers :
             Parent(1, c) => done'[1].val = ContainerPointer(parent[c])]_vars

\* Parent() has answered for a scoped container that was registered into,
\* and for one that was cleared.
C13_Witness ==
    \E c \in Containers :
        /\ parent[c] # 0
        /\ c \in cleared
        /\ \E e \in EntryIds : entries[e].depType = "D"
        /\ done[1].op = "Parent"
        /\ done[1].c = c
        /\ done[1].val = ContainerPointer(parent[c])

(***************************************************************************)
(* Properties of the registrations without tokens, under SpecProvide.      *)
(***************************************************************************)
\* The step leaves the maps of every container and every entry as they are
\* and ends in a panic of the caller.
RefusedStep ==
    /\ registry' = registry
    /\ typeRegistry' = typeRegistry
    /\ entries' = entries
    /\ done'[1].out \in {"panic:invalid-registration", "panic:reflect"}

\* C14: Provide(nil), and ProvideFactory and ProvidePrototype given nil, a
\* value that is no function, or a function that does not return exactly
\* one value, panic and leave the handle map and the type index of the
\* container as they were.
C14_RejectedMutatesNothing ==
    [][\A c \in Containers :
          /\ Provide(1, c, NilType, FALSE) => RefusedStep
          /\ \A fn \in Factories \ {FuncOf(<<"PD">>)},
                lifecycle \in {Singleton, Prototype} :
                provideFactoryWithLifecycle(1, c, fn, lifecycle) => RefusedStep]_vars

\* A registration was refused by a container that holds entries.
C14_Witness ==
    /\ done[1].op \in {"Provide", "ProvideFactory"}
    /\ done[1].out = "panic:invalid-registration"
    /\ registry[done[1].c] # {}
    /\ typeRegistry[done[1].c]["PD"] # <<>>

(***************************************************************************)
(* Properties of ResolveAll, under SpecAll.                                *)
(***************************************************************************)
\* The entries of sequence s.
Range(s) == {s[i] : i \in 1 .. Len(s)}

\* The containers from c up to the root.
RECURSIVE Chain(_)
Chain(c) == IF c = 0 THEN {} ELSE {c} \cup Chain(parent[c])

\* The entries of the chain of c that a ResolveAll(T) collects.
Collectable(c, T) ==
    {p[2] : p \in {q \in UNION {registry[a] : a \in Chain(c)} :
                      \/ isExactMatch(T, entries[q[2]].depType)
                      \/ isSimilarType(T, entries[q[2]].depType)}}

\* The type index of c under T holds distinct entries in the order of their
\* registration, each of them in the handle map of c as well.
IndexKept(c, T) ==
    LET idx == typeRegistry[c][T]
    IN  /\ \A i, j \in 1 .. Len(idx) : i < j => idx[i] < idx[j]
        /\ \A i \in 1 .. Len(idx) : \E p \in registry[c] : p[2] = idx[i]

\* A finished ResolveAll(T) on c returned the values of the index of c
\* under T first and in order, and nothing else when the chain holds no
\* other entry that matches T.
AllReturned(c, T) ==
    LET idx == typeRegistry[c][T]
        vals == done[1].vals
    IN  /\ Len(vals) >= Len(idx)
        /\ \A i \in 1 .. Len(idx) : vals[i] = entries[idx[i]].value
        /\ Collectable(c, T) = Range(idx) => Len(vals) = Len(idx)

\* A step keeps what Provide promises.
ProvideAppends ==
    /\ \A c \in Containers, T \in {"D", "PD"} :
          Provide(1, c, T, FALSE) =>
              /\ typeRegistry'[c][T] = Append(typeRegistry[c][T], Len(entries'))
              /\ Len(entries') = Len(entries) + 1
              /\ registry[c] \subseteq registry'[c]
    /\ \A c \in Containers, T \in {"D", "PD"} : IndexKept(c, T)'
    /\ (done[1].op = "ResolveAll" /\ done[1].out = "ok")'
          => AllReturned(done[1].c, done[1].typ)'

\* C15: Provide never overwrites.  A Provide of a value of type T appends
\* one new entry to the type index of the container under T and adds it to
\* the handle map, and takes nothing out of either; so k Provide calls
\* leave k distinct entries in the index, in registration order, and a
\* ResolveAll(T) returns their k values.
C15_ProvideNeverOverwrites == [][ProvideAppends]_vars

\* A ResolveAll(T) returned exactly the values of two Provide calls.
C15_Witness ==
    /\ done[1].op = "ResolveAll"
    /\ done[1].out = "ok"
    /\ Len(typeRegistry[done[1].c][done[1].typ]) >= 2
    /\ Len(done[1].vals) = Len(typeRegistry[done[1].c][done[1].typ])

(***************************************************************************)
(* Properties of Register among concurrent callers, under SpecAtomic.      *)
(***************************************************************************)
\* A Register on c has applied some of its registrations and not yet all.
MidBatch(c) ==
    \E t \in Threads : \E i \in 1 .. Len(stack[t]) :
        /\ stack[t][i].fn = "Register"
        /\ stack[t][i].c = c
        /\ stack[t][i].k > 0
        /\ stack[t][i].todo # <<>>

\* Caller t reads the handle map or the type index of a container: the
\* lookup of Get and Find, the index look and the scan of Resolve, the
\* index looks and the scans of ResolveAll.
ReadsMaps(t) ==
    \/ getEntry(t)
    \/ Resolve(t)
    \/ findSingleEntry(t)
    \/ ResolveAllCapacity(t)
    \/ ResolveAllIndex(t)
    \/ collectScan(t)

\* Caller t is about to read the maps of a container whose batch is under
\* way.
AwaitsBatch(t) ==
    /\ ~Idle(t)
    /\ Top(t).pc \in {"getEntry", "typeRegistry", "scan", "capacity", "index"}
    /\ MidBatch(Top(t).cur)

\* No read of the maps of a container, and no loop under its read lock,
\* meets a batch that is applied in part.
BatchUnseen ==
    /\ \A t \in Threads : ReadsMaps(t) => ~MidBatch(Top(t).cur)
    /\ \A c \in Containers : ~(RLocked(c) /\ MidBatch(c))

\* C16: Register(r1..rn) is atomic for the concurrent callers of the same
\* container: every read that Get, Find, Resolve or ResolveAll makes of
\* the maps sees all the bindings of a batch or none of them.
C16_RegisterAtomic == [][BatchUnseen]_vars

\* A caller waits at its read of the maps while a batch is half applied.
C16_Witness == \E t \in Readers : AwaitsBatch(t)

(***************************************************************************)
(* Properties of Inject, under SpecInject.                                 *)
(***************************************************************************)
\* The last call of the caller was an Inject into a struct of type T.
Injected(T) == done[1].op = "Inject" /\ done[1].typ = T

\* The chain of c holds one entry that matches *Database, the bare
\* Database value of a Provide call.
OnlyBareValue(c) ==
    /\ Cardinality(Collectable(c, "PD")) = 1
    /\ \A e \in Collectable(c, "PD") :
          entries[e].depType = "D" /\ entries[e].factory.kind = "none"

\* The pointer that resolveAndConvert makes of the value of entry e.
AddressOf(e) == [typ |-> "PD", obj |-> entries[e].value.obj, conv |-> "addr"]

\* C17: Inject into a struct whose settable field has the type *Database,
\* on a container whose chain holds a bare Database value as the only
\* entry matching the field, succeeds and sets the field to a non-nil
\* pointer to a Database equal to the registered value.
C17_InjectBareValue ==
    \A c \in Containers :
        (Injected("S") /\ done[1].c = c /\ OnlyBareValue(c)) =>
            /\ done[1].out = "ok"
            /\ \A e \in Collectable(c, "PD") : done[1].vals = <<AddressOf(e)>>

\* The targets that are no pointer to a struct: a bare struct and a
\* pointer to a pointer; and the nil target.
BadTargets == {Target("W", FALSE), Target("PPD", FALSE)}
NilTarget == Target(NilType, FALSE)

\* The step ends the Inject with the panic out, before any resolution and
\* any call of a factory.
InjectRefused(out) ==
    /\ done'[1].op = "Inject"
    /\ done'[1].out = out
    /\ stack'[1] = <<>>
    /\ callCount' = callCount
    /\ entries' = entries

\* C18: Inject panics with "target must be a pointer to a struct" for a
\* target that is a bare struct or a pointer to something that is no
\* struct, and it resolves nothing and calls no factory then.  (The nil
\* target makes it panic inside reflect, likewise before any resolution.)
C18_InvalidTarget ==
    [][\A c \in Containers :
          /\ \A target \in BadTargets :
                CallInject(1, c, target) => InjectRefused("panic:invalid-target")
          /\ CallInject(1, c, NilTarget) => InjectRefused("panic:reflect")]_vars

\* An Inject was refused on a container that holds values and a factory
\* that has not been called.
C18_Witness ==
    /\ done[1].op = "Inject"
    /\ done[1].out = "panic:invalid-target"
    /\ typeRegistry[done[1].c]["PD"] # <<>>
    /\ \E e \in EntryIds : entries[e].factory.kind = "plain" /\ callCount[e] = 0

\* The entries in the handle maps of the chain of c.
ChainEntries(c) == {p[2] : p \in UNION {registry[a] : a \in Chain(c)}}

\* The steps of Inject take the fields in the order of their declaration
\* and do with each what the result of Resolve asks for.
InjectInOrder ==
    LET f == Top(1)
        field == Fields(f.typ)[f.k + 1]
    IN  /\ InjectField(1) =>
              IF field.exported
              THEN /\ Top(1)'.fn = "Resolve"
                   /\ Top(1)'.typ = field.typ
                   /\ stack'[1][2].k = f.k
              ELSE Top(1)' = [f EXCEPT !.k = f.k + 1]
        /\ (InjectResolved(1) /\ ret[1].out = "ok" /\ ret[1].val.typ # NilType) =>
              Top(1)' = [f EXCEPT !.pc = "field", !.k = f.k + 1,
                                  !.results = Append(f.results, ret[1].val)]
        /\ (InjectResolved(1) /\ ret[1].out # "ok" /\ Kind(field.typ) = "struct") =>
              /\ Top(1)' = Frame("Inject", "field", f.c, field.typ, NoToken, 0)
              /\ stack'[1][2].k = f.k
        /\ (InjectResolved(1) /\ ret[1].out # "ok" /\ Kind(field.typ) # "struct") =>
              /\ stack'[1] = <<>>
              /\ done'[1].op = "Inject"
              /\ done'[1].out \in {"panic:unresolved-field S.DB",
                                   "panic:unresolved-field W.Any",
                                   "panic:unresolved-field W.DB"}
        /\ InjectNested(1) =>
              Top(1)' = [f EXCEPT !.pc = "field", !.k = f.k + 1,
                                  !.results = Append(f.results, NewStruct(field.typ))]

\* What a finished Inject into a W has done on a chain that holds nothing,
\* and on a chain that holds one entry, of type *Database.
InjectedAll ==
    \A c \in Containers :
        (Injected("W") /\ done[1].c = c) =>
            /\ ChainEntries(c) = {} => done[1].out = "panic:unresolved-field W.Any"
            /\ \A e \in EntryIds :
                  (ChainEntries(c) = {e} /\ entries[e].depType = "PD") =>
                      /\ done[1].out = "ok"
                      /\ done[1].vals = <<entries[e].value, entries[e].value,
                                          NewStruct("S"), entries[e].value>>

\* C19: Inject takes the fields that can be set in the order of their
\* declaration; it sets a field to the value that Resolve finds for the
\* type of the field; a field that Resolve misses is filled by an Inject
\* into a new struct when its type is a struct, and makes Inject panic
\* with the name of the field otherwise.
C19_FieldsInOrder == [][InjectInOrder /\ InjectedAll']_vars

\* An Inject into a W has set Any, the DB of the nested Service, Svc and
\* DB, in this order.
C19_Witness ==
    /\ Injected("W")
    /\ done[1].out = "ok"
    /\ Len(done[1].vals) = 4
    /\ done[1].vals[3] = NewStruct("S")

(***************************************************************************)
(* Properties of Invoke and Call, under SpecInvoke.                        *)
(***************************************************************************)
\* The last call of the caller was an Invoke or a Call.
Invoked == done[1].op \in {"Invoke", "Call"}

\* The steps of Invoke resolve the parameters in their order and call the
\* callable once all of them are resolved; the callable has been called
\* once when Invoke returns (or when Call fails on the result), and not at
\* all when Invoke fails.
InvokeOnce ==
    LET f == Top(1)
        i == Len(f.results) + 1
    IN  /\ (InvokeLoop(1) /\ i <= Len(f.params)) =>
              /\ stack'[1] # <<>>
              /\ Top(1)'.fn = "Resolve"
              /\ Top(1)'.typ = f.params[i]
        /\ (InvokeLoop(1) /\ i > Len(f.params)) =>
              /\ stack'[1] # <<>>
              /\ Top(1)' = [f EXCEPT !.pc = "called", !.calls = 1]
        /\ Invoked' =>
              done'[1].calls =
                  IF done'[1].out \in {"ok", "panic:index", "panic:assert"} THEN 1 ELSE 0

\* C20: Invoke and Call resolve every parameter of the callable in the
\* order of the parameters and then call the callable exactly once with
\* the resolved arguments; when a parameter cannot be resolved they fail
\* and the callable is not called.
C20_InvokeOnce == [][InvokeOnce]_vars

(***************************************************************************)
(* Properties of the auto-wired factories, under SpecAuto.                 *)
(***************************************************************************)
\* The container in whose handle map entry e is.
Holder(e) == CHOOSE c \in Containers : \E p \in registry[c] : p[2] = e

\* The factory of an auto-wired binding resolves its parameters from the
\* container that the Bind call named, in the state of the call.
ResolvesFromNamed ==
    LET f == Top(1)
        fac == entries[f.e].factory
    IN  /\ (resolveAndCall(1) /\ Len(f.args) < Len(fac.params)) =>
              /\ stack'[1] # <<>>
              /\ Top(1)'.fn = "Resolve"
              /\ Top(1)'.c = fac.c
              /\ Top(1)'.typ = fac.params[Len(f.args) + 1]
        /\ (resolveParameter(1) /\ ret[1].out = "ok") =>
              ret[1].e \in ChainEntries(fac.c)

\* C21: the factory of a BindAutoFactory or BindAutoPrototype binding
\* resolves its parameters from the container named in the Bind call (the
\* default container, container 1, when none was named) when the factory
\* is called, whatever container the binding is registered into and
\* whatever container of a chain the Get is issued on.
C21_AutoFactoryContainer == [][ResolvesFromNamed]_vars

\* A Get on the root made the factory of a binding registered in the root
\* take its parameter from the scoped container that the Bind named, where
\* alone the value is.
C21_Witness ==
    /\ done[1].op = "Get"
    /\ done[1].out = "ok"
    /\ done[1].c = 1
    /\ done[1].e \in EntryIds
    /\ entries[done[1].e].factory.kind = "auto"
    /\ entries[done[1].e].factory.c # 1
    /\ Holder(done[1].e) = 1
    /\ ChainEntries(1) = {done[1].e}

(***************************************************************************)
(* Properties of the two maps of a container, under Spec.                  *)
(***************************************************************************)
\* Entry e of the handle map of c is in the type index of c under its
\* declared type.
Indexed(c, e) ==
    /\ entries[e].depType \in DOMAIN typeRegistry[c]
    /\ e \in Range(typeRegistry[c][entries[e].depType])

\* C22: in every reachable state every entry of the handle map of a
\* container is in the type index of that container under its declared
\* type, and the entries under one type are in the order of their
\* registration.
C22_HandleMapIndexed ==
    \A c \in Containers :
        /\ \A p \in registry[c] : Indexed(c, p[2])
        /\ \A T \in DOMAIN typeRegistry[c] :
              \A i, j \in 1 .. Len(typeRegistry[c][T]) :
                  i < j => typeRegistry[c][T][i] < typeRegistry[c][T][j]

\* C23: every entry has its declared type set from its creation on, and
\* so no scan by type fails to classify an entry that it visits.
C23_DeclaredTypeSet ==
    /\ \A e \in EntryIds : entries[e].depType # NilType
    /\ \A t \in Threads : done[t].out # "panic:nil-type"

(***************************************************************************)
(* Properties of the ambiguity check of Resolve, under SpecMatch.          *)
(***************************************************************************)
\* C24: a Resolve(T) fails as ambiguous whenever more than one entry of
\* the container it is called on matches T exactly (declared type T, or
\* assignable to or implementing T), and it returns an exactly matching
\* entry of that container only when that entry is the only exact match.
C24_AmbiguousExact ==
    LET c == done[1].c
        X == ExactIn(c, done[1].typ)
    IN  Resolved(1) =>
            /\ Cardinality(X) > 1 => done[1].out = "panic:ambiguous"
            /\ (done[1].out = "ok" /\ done[1].e \in X) => Cardinality(X) = 1

(***************************************************************************)
(* Properties of the similar matches, under SpecSimilar.                   *)
(***************************************************************************)
\* The entries in the handle map of container c.
Local(c) == {p[2] : p \in registry[c]}

\* Entry e holds a nil pointer.
HoldsNil(e) == entries[e].value.obj = NilObj

\* A search of container a for T is certain to find something in a itself:
\* an exact match, or similar matches none of which holds a nil pointer
\* that cannot be coerced to a bare value.
Finds(a, T) ==
    \/ ExactIn(a, T) # {}
    \/ /\ SimilarIn(a, T) # {}
       /\ \A e \in SimilarIn(a, T) : Kind(T) = "ptr" \/ ~HoldsNil(e)

ResolvedAll(t) == done[t].op = "ResolveAll" /\ done[t].out # "none"

\* The matches of T in the chain of c are pointers that hold nil.
OnlyNilPointers(c, T) ==
    /\ Kind(T) # "ptr"
    /\ Collectable(c, T) # {}
    /\ \A e \in Collectable(c, T) : entries[e].depType # T /\ HoldsNil(e)

\* C26: when the only match of a bare type T in the chain is a similar
\* entry of type *T that holds a nil pointer, Resolve(T) reports not-found
\* without failing, and a ResolveAll(T) returns without failing and
\* without a value for any nil pointer.
C26_NilPointerSkipped ==
    /\ (Resolved(1) /\ OnlyNilPointers(done[1].c, done[1].typ)) =>
          done[1].out = "notfound"
    /\ (ResolvedAll(1) /\ Kind(done[1].typ) # "ptr") =>
          /\ done[1].out = "ok"
          /\ \A i \in 1 .. Len(done[1].vals) : done[1].vals[i].obj # NilObj
          /\ OnlyNilPointers(done[1].c, done[1].typ) => done[1].vals = <<>>

\* A Resolve of the struct type reported not-found on a container whose one
\* entry is a nil pointer to the struct.
C26_Witness ==
    /\ Resolved(1)
    /\ done[1].typ = "D"
    /\ done[1].out = "notfound"
    /\ Cardinality(Local(done[1].c)) = 1
    /\ OnlyNilPointers(done[1].c, "D")

(***************************************************************************)
(* Properties of ResolveAll over a chain, under SpecCollect.               *)
(***************************************************************************)
\* No two values of the sequence vals come from one entry.
OncePerEntry(vals) ==
    \A i, j \in 1 .. Len(vals) : i < j => vals[i].obj[1] # vals[j].obj[1]

\* The results of the ResolveAll under way hold at most one value of each
\* entry, and a factory that the call invokes has no value in them yet.
CollectsOnce ==
    /\ \A i \in 1 .. Len(stack'[1]) : OncePerEntry(stack'[1][i].results)
    /\ ResolvedAll(1)' => OncePerEntry(done'[1].vals)
    /\ factoryCall(1) =>
          /\ Len(stack[1]) >= 3
          /\ \A i \in 1 .. Len(stack[1][3].results) :
                stack[1][3].results[i].obj[1] # Top(1).e
          /\ callCount'[Top(1).e] = callCount[Top(1).e] + 1

\* C27: in one ResolveAll call no entry contributes more than one value,
\* over the pass through the type index, the scan of the container and the
\* scans of its ancestors; the factory of a Prototype entry is invoked at
\* most once in the call.
C27_OneValuePerEntry == [][CollectsOnce]_vars

\* A ResolveAll of the pointer type on a scoped container returned one
\* value for a Prototype entry that is in the type index and in the handle
\* map, and went on to the parent.
C27_Witness ==
    /\ ResolvedAll(1)
    /\ done[1].typ = "PD"
    /\ parent[done[1].c] # 0
    /\ \E e \in Local(done[1].c) :
          /\ entries[e].lifecycle = Prototype
          /\ e \in Range(typeRegistry[done[1].c]["PD"])
          /\ Cardinality({i \in 1 .. Len(done[1].vals) : done[1].vals[i].obj[1] = e}) = 1
    /\ Len(done[1].vals) > 1

\* C28: the result of a ResolveAll(T) holds a value of every entry, in
\* every container of the chain, that matches T exactly or similarly.
C28_CollectsWholeChain ==
    ResolvedAll(1) =>
        \A e \in Collectable(done[1].c, done[1].typ) :
            \E i \in 1 .. Len(done[1].vals) : done[1].vals[i].obj[1] = e

\* The number of steps from container c up to its ancestor a.
RECURSIVE Depth(_, _)
Depth(c, a) == IF c = a \/ c = 0 THEN 0 ELSE 1 + Depth(parent[c], a)

\* The place of a value of entry e in the order by scope of a ResolveAll(T)
\* on c: the index hits of c, the other entries of c, then the ancestors.
Rank(c, T, e) ==
    IF e \in Range(typeRegistry[c][T]) THEN 0
    ELSE 1 + Depth(c, Holder(e))

\* C29: the result of a ResolveAll(T) is ordered by scope: the hits of the
\* type index of the container, then its other matches, and after all of
\* its own values the values of the parent chain, nearest ancestor first.
C29_OrderedByScope ==
    ResolvedAll(1) =>
        \A i, j \in 1 .. Len(done[1].vals) :
            i < j => Rank(done[1].c, done[1].typ, done[1].vals[i].obj[1])
                        <= Rank(done[1].c, done[1].typ, done[1].vals[j].obj[1])

(***************************************************************************)
(* Properties of the auto-wiring of primitive parameters, under            *)
(* SpecPrimitive.                                                          *)
(***************************************************************************)
\* The next parameter that the loop of frame f takes is an int or a *int.
AtPrimitive(f, params, taken) ==
    /\ f.pc = "loop"
    /\ Len(taken) < Len(params)
    /\ params[Len(taken) + 1] \in {"int", "Pint"}

\* The call of caller 1 ends here with the refusal of a primitive
\* parameter, its callable not invoked.
Refused ==
    /\ stack'[1] = <<>>
    /\ done'[1].out = "panic:primitive"
    /\ done'[1].calls = 0
    /\ callCount' = callCount

\* A step of Invoke, Call or an auto-wired factory at a primitive parameter
\* refuses it, and no lookup by type is ever made for a primitive type.
PrimitiveRefused ==
    /\ (InvokeLoop(1) /\ AtPrimitive(Top(1), Top(1).params, Top(1).results)) => Refused
    /\ (resolveAndCall(1)
          /\ AtPrimitive(Top(1), entries[Top(1).e].factory.params, Top(1).args)) => Refused
    /\ \A i \in 1 .. Len(stack'[1]) :
          stack'[1][i].fn = "Resolve" => stack'[1][i].typ \notin {"int", "Pint"}

Missed(f) ==
    /\ f.fn \in {"Invoke", "Call"}
    /\ f.pc = "resolveParameter"
    /\ ret[1].out # "ok"

\* A miss for the only parameter, of struct shape, starts an injection, and
\* the callable is then called with the injected argument, which has the
\* declared type of the parameter; a miss with two or more parameters fails
\* at once.
InjectsOnlyParameter ==
    LET f == Top(1)
    IN  /\ (InvokeParameter(1) /\ Missed(f) /\ Len(f.params) = 1
              /\ Kind(SearchType(f.params[1])) = "struct") =>
              /\ stack'[1] # <<>>
              /\ Top(1)'.fn = "Inject"
              /\ Top(1)'.typ = SearchType(f.params[1])
        /\ (InvokeLoop(1) /\ f.results # <<>> /\ f.results[1].conv = "new") =>
              /\ f.results[1].typ = f.params[1]
              /\ stack'[1] # <<>>
              /\ Top(1)'.pc = "called"
        /\ (InvokeParameter(1) /\ Missed(f) /\ Len(f.params) > 1) =>
              /\ stack'[1] = <<>>
              /\ done'[1].out = "panic:unresolved-parameter"
              /\ done'[1].calls = 0

\* C31: when the lookup misses for the only parameter of a callable and
\* the parameter is a struct or a pointer to a struct, the parameter is
\* filled by struct injection and the callable is called with an injected
\* argument of the declared type of the parameter; with two or more
\* parameters a miss fails and nothing is injected.
C31_SingleParameterInjected == [][InjectsOnlyParameter]_vars

(***************************************************************************)
(* Properties of the locks along a chain of containers, under SpecLocks.   *)
(***************************************************************************)
\* The containers whose lock the frames of thread t hold.
HeldBy(t) ==
    {stack[t][i].c : i \in {j \in 1 .. Len(stack[t]) :
        \/ stack[t][j].fn = "Register"
        \/ /\ stack[t][j].fn \in {"ResolveAll", "collectEntriesDirectly"}
           /\ stack[t][j].pc \in {"loop", "append"}}}

\* Thread t is at a c.mu.RLock() of container a.
Acquires(t, a) ==
    /\ stack[t] # <<>>
    /\ \/ Top(t).fn \in {"Get", "Find"} /\ Top(t).pc = "getEntry" /\ Top(t).cur = a
       \/ Top(t).fn = "Resolve" /\ Top(t).pc = "typeRegistry" /\ Top(t).c = a
       \/ Top(t).fn = "findSingleEntry" /\ Top(t).pc = "scan" /\ Top(t).c = a
       \/ Top(t).fn = "ResolveAll" /\ Top(t).pc \in {"capacity", "index"} /\ Top(t).c = a
       \/ Top(t).fn = "collectEntriesDirectly" /\ Top(t).pc = "scan" /\ Top(t).c = a

\* C32: in Get, Find, Resolve and ResolveAll a thread that acquires the
\* lock of a container holds the lock of no descendant of that container:
\* the lock of each container is released before the search moves on to
\* its parent.
C32_NoChildLockHeld ==
    \A t \in Threads : \A a \in Containers :
        Acquires(t, a) => \A c \in HeldBy(t) : a \notin Chain(parent[c])

\* A factory of thread t is running.
InFactory(t) ==
    \E i \in 1 .. Len(stack[t]) : stack[t][i].fn \in {"factory", "resolveAndCall"}

\* C34: no lock of a container is held by a caller while a factory runs
\* for it: Get, Find, Resolve and ResolveAll release the read lock before
\* they resolve an entry.
C34_NoLockInFactory ==
    \A t \in Threads : InFactory(t) => HeldBy(t) = {}

(***************************************************************************)
(* Properties of the state of an entry, under SpecEntry.                   *)
(***************************************************************************)
\* Entry e keeps what a step may not change: a value entry its value, a
\* Prototype entry its empty value and its clear Once, a Singleton entry
\* whose Once is done the flag and the value; the Once of a Singleton entry
\* is set by the caller inside it, at the end of the one call of the
\* factory, and until then the entry holds no value.
LifecycleStep(e) ==
    LET a == entries[e]
        b == entries'[e]
    IN  /\ b.factory = a.factory
        /\ b.lifecycle = a.lifecycle
        /\ b.depType = a.depType
        /\ a.factory.kind = "none" => b.value = a.value
        /\ e \in PrototypeFactories => b.value = NilValue /\ ~b.once
        /\ e \in SingletonFactories =>
              /\ a.once => b.once /\ b.value = a.value
              /\ ~a.once => a.value = NilValue
              /\ (~a.once /\ b.once) =>
                    /\ callCount[e] = 1
                    /\ \E t \in Threads : InOnce(t, e) /\ stack'[t] # stack[t]

C35_FailureNotMemoized ==
    \A e \in SingletonFactories, t \in Threads :
        (done[t].op \in {"Get", "Resolve"} /\ done[t].out = "ok" /\ done[t].e = e)
            => done[t].val # NilValue

(***************************************************************************)
(* Properties of a Resolve that races with registrations, under SpecRace.  *)
(***************************************************************************)
\* What a Resolve of the pointer type on container c returns when it runs
\* alone on the chain as it was after the first k registrations: <<out, e>>.
RECURSIVE Sequential(_, _)
Sequential(c, k) ==
    LET X == {e \in Local(c) : e <= k}
    IN  IF c = 0 THEN <<"notfound", 0>>
        ELSE IF Cardinality(X) > 1 THEN <<"panic:ambiguous", 0>>
        ELSE IF Cardinality(X) = 1 THEN <<"ok", CHOOSE e \in X : TRUE>>
        ELSE Sequential(parent[c], k)

\* C36: a Resolve(T) on a scoped container that runs while other callers
\* register returns what a Resolve(T) running alone would return in one of
\* the states that the chain went through between the call and the return;
\* so it does not return an entry of an ancestor when in each of those
\* states the scoped container had a match of its own or the ancestor had
\* none.
C36_ResolveLinearizable ==
    \A t \in Readers :
        Resolved(t) =>
            \E k \in 0 .. Len(entries) :
                <<done[t].out, done[t].e>> = Sequential(done[t].c, k)

(***************************************************************************)
(* SpecChoice: caller 1 builds a chain of containers and provides struct   *)
(* values and pointers in its innermost container; after that the callers  *)
(* resolve the struct type and the pointer type there, the contents of the *)
(* chain being fixed.                                                      *)
(***************************************************************************)
NextChoice ==
    \/ Fresh /\ NewScoped(1, Len(parent))
    \/ \E typ \in {"D", "PD"} : Fresh /\ Provide(1, Len(parent), typ, FALSE)
    \/ \E t \in Threads :
          \/ \E targetType \in {"D", "PD"} :
                done[t] = NoOp /\ CallResolve(t, Len(parent), targetType)
          \/ Resolve(t)
          \/ ResolveReturn(t)
          \/ findSingleEntry(t)
          \/ findSingleEntryExact(t)
          \/ findSingleEntryParent(t)
          \/ findSingleEntrySimilar(t)
          \/ entryResolve(t)

SpecChoice == InitEntry /\ [][NextChoice]_vars

\* C37: for fixed contents of the chain two Resolve(T) calls select the
\* same entry, also when T has no exact match and several entries of the
\* container are similar matches.
C37_ResolveDeterministic ==
    \A t1, t2 \in Threads :
        (/\ Resolved(t1)
         /\ Resolved(t2)
         /\ done[t1].c = done[t2].c
         /\ done[t1].typ = done[t2].typ)
            => /\ done[t1].out = done[t2].out
               /\ done[t1].e = done[t2].e

(***************************************************************************)
(* Properties of the handles, under SpecTokens.                            *)
(***************************************************************************)
\* C38: in every reachable state every entry in the type index of a
\* container is the binding of a handle in the handle map of that
\* container: an entry replaced by a Register of its handle is in the type
\* index no more.
C38_IndexHoldsBindings ==
    \A c \in Containers : \A T \in DOMAIN typeRegistry[c] :
        Range(typeRegistry[c][T]) \subseteq Local(c)

(***************************************************************************)
(* SpecCycle: caller 1 registers Singleton auto-wired factories in the     *)
(* default container, among them one that requires its own product and     *)
(* two that require each other, and then gets and resolves them.  The      *)
(* bodies of the user's functions terminate, and a caller that can take a  *)
(* step takes it.                                                          *)
(***************************************************************************)
CycleFactories ==
    {buildAutoFactory(<<"tok", 4>>, <<"PD">>, Singleton, 1),
     buildAutoFactory(<<"tok", 4>>, <<"PS">>, Singleton, 1),
     buildAutoFactory(<<"tok", 1>>, <<"PS">>, Singleton, 1),
     buildAutoFactory(<<"tok", 1>>, <<>>, Singleton, 1)}

\* A step of a call under way.
StepCycle ==
    \/ getEntry(1)
    \/ GetReturn(1)
    \/ Resolve(1)
    \/ ResolveReturn(1)
    \/ findSingleEntry(1)
    \/ entryResolve(1)
    \/ onceDoSlow(1)
    \/ onceFinish(1)
    \/ factoryCall(1)
    \/ factoryBody(1)
    \/ resolveAndCall(1)
    \/ resolveParameter(1)
    \/ resolveParameterInjected(1)
    \/ InjectField(1)
    \/ InjectReturn(1)

NextCycle ==
    \/ \E r \in CycleFactories : Fresh /\ Register(1, 1, <<r>>)
    \/ \E n \in {1, 4} : CallGet(1, 1, <<"tok", n>>)
    \/ \E targetType \in {"PD", "PS"} : CallResolve(1, 1, targetType)
    \/ StepCycle

SpecCycle == InitEntry /\ [][NextCycle]_vars /\ WF_vars(StepCycle)

\* C39: every Get and every Resolve that has been called returns or fails
\* at some time, also on auto-wired factories whose parameters require one
\* another in a cycle.
C39_CallsTerminate == \A t \in 1 .. NumThreads : (stack[t] # <<>>) ~> (stack[t] = <<>>)

(***************************************************************************)
(* Identity of handles, under SpecTokens.                                  *)
(***************************************************************************)
\* Two handles made separately that carry the same key string.
SameKey(h1, h2) == h1 # h2 /\ TokenKey(h1) = TokenKey(h2)

HandleIdentityStep ==
    /\ \A c \in Containers : \A p \in registry[c] :
           \/ p \in registry'[c]
           \/ \E q \in registry'[c] : q[1] = p[1] /\ q[2] > Len(entries)
    /\ getEntry(1) =>
           LET f == Top(1)
           IN  /\ (stack'[1] # <<>> /\ Top(1)'.fn = "resolve")
                      => <<f.tok, Top(1)'.e>> \in registry[f.cur]
               /\ (parent[f.cur] = 0 /\ \A p \in registry[f.cur] : p[1] # f.tok)
                      => done'[1].out = "panic:not-found"

\* C40: the handle map is keyed by the handle itself.  A binding leaves the
\* map of its container only when its own handle is bound again there, so a
\* registration under another handle with the same key string adds an entry;
\* a Get takes an entry only from a binding of the very handle it is called
\* with, and fails as not-found at the root when that handle is not bound,
\* whatever is bound under other handles with the same key string.
C40_HandleIdentity == [][HandleIdentityStep]_vars

\* A Get with token 2 failed as not-found on a root container that binds
\* token 1, which has the same key string.
C40_Witness ==
    \E t \in Threads, e \in EntryIds :
        /\ done[t].op = "Get"
        /\ done[t].out = "panic:not-found"
        /\ done[t].tok = <<"tok", 2>>
        /\ SameKey(<<"tok", 1>>, done[t].tok)
        /\ parent[done[t].c] = 0
        /\ registry[done[t].c] = {<<<<"tok", 1>>, e>>}

=============================================================================
